---- MODULE Spec2Model ----
(***************************************************************************)
(* x402 payment negotiation of ShadowWire (src/src/x402.ts, the revision   *)
(* in lines 1-596): the server-side paywall middleware x402Paywall with    *)
(* its facilitator client (verifyPayment, settlePayment), the client-side  *)
(* X402Client.request() orchestration, X402Client.pay() called on its own, *)
(* and the proof codec encodePaymentHeader / decodePaymentHeader.          *)
(*                                                                         *)
(* A JavaScript string is modelled by what the code asks of it: its UTF-8  *)
(* byte length and the text its base64 decoding yields.  A value that may  *)
(* be undefined is the string Undefined.                                   *)
(***************************************************************************)
EXTENDS Integers, Sequences, FiniteSets, TLC

VARIABLES
  \* ---- x402Paywall: one invocation of the middleware closure ----
  gpc,          \* position of the middleware's async function
  req,          \* the request object: path, url, headers, x402
  config,       \* the X402MiddlewareConfig captured by the closure
  resource,     \* const resource
  paymentHeader,\* const paymentHeader
  proof,        \* const proof (result of decodePaymentHeader)
  verifyResult, \* const verifyResult
  settleResult, \* const settleResult
  res,          \* the response object: times sent, status, headers, body
  verifyResp,   \* what the facilitator's /verify fetch settled with
  settleResp,   \* what the facilitator's /settle fetch settled with
  inflight,     \* facilitator fetches issued and not yet answered
  trace,        \* the calls the middleware has made, in order
  \* ---- X402Client.request(): one call ----
  cpc,          \* position of request()
  cfg,          \* the X402Client instance fields used by request()
  initial,      \* const initial (first response)
  payResult,    \* const payResult
  attempt,      \* let attempt
  lastRes,      \* const res of the current paid attempt
  fetches,      \* calls of globalThis.fetch
  sentHeaders,  \* the payment header each fetch carried, in order
  transfers,    \* calls of client.transfer
  slept,        \* total milliseconds passed to sleep()
  outcome,      \* how the promise of request() settled
  \* ---- encodePaymentHeader / decodePaymentHeader: one use of the codec ----
  kpc,          \* idle, encoded or received, then roundTrip or decoded
  codecProof,   \* the proof given to encodePaymentHeader
  codecHeader,  \* the header string given to decodePaymentHeader
  codecOut,     \* what decodePaymentHeader returned
  \* ---- X402Client.pay(): one call ----
  ppc,          \* position of pay()
  payReq,       \* the argument requirement
  payAmount,    \* const amount
  payCalls,     \* calls of client.transfer
  payTransfer,  \* what client.transfer settled with
  payOut,       \* the X402PaymentResult returned
  payTrace,     \* the calls pay() has made, in order
  \* ---- X402Client.parseRequirements / is402: one call ----
  hpc,          \* idle, parsed or is402
  helperStatus, \* the argument status
  helperBody,   \* the argument body
  helperParsed, \* what parseRequirements(body) returned
  helperIs402,  \* what is402(status, body) returned
  \* ---- createPaymentRequired: two calls on one configuration ----
  bpc,          \* idle, once or twice
  builderGiven, \* the configuration as it was handed in
  builderConfig,\* the configuration object as it is now
  builderResource, \* the argument resource
  builderDocs,  \* the documents returned, in order
  \* ---- two calls of the middleware, or of request(), in flight at once ----
  shared,       \* the closure's config and the fields of the X402Client
  frames,       \* the locals of the calls, by frame
  calls,        \* per call: position, inputs, answers received, outcome
  overlapped,   \* the kinds of call entered while another was in flight
  \* ---- verifyPayment / settlePayment: one direct call ----
  fpc,          \* idle, awaitFetch or done
  facCall,      \* which function, and its arguments
  facSent,      \* the requests handed to timedFetch, in order
  facResp,      \* what the fetch settled with
  facResult,    \* the result returned
  \* ---- doFetch: one call ----
  dpc,          \* idle, pending or done
  dTimeoutMs,   \* this.timeoutMs
  dElapsed,     \* seconds since the fetch was issued
  dTimer,       \* unset, armed, cleared or fired
  dOut,         \* what doFetch returned or threw
  \* ---- a challenge, the payment for it, and the paid request ----
  xpc,          \* idle, challenged, awaitTransfer, unpaid, paid or gated
  xConfig,      \* the middleware's config
  xPath,        \* req.path of both requests
  xChallenge,   \* the 402 body the middleware answered
  xPay,         \* what pay() returned
  xGate         \* where the paid request got to, and the requirement built

gateVars == <<gpc, req, config, resource, paymentHeader, proof, verifyResult,
              settleResult, res, verifyResp, settleResp, inflight, trace>>
clientVars == <<cpc, cfg, initial, payResult, attempt, lastRes, fetches,
                sentHeaders, transfers, slept, outcome>>
codecVars == <<kpc, codecProof, codecHeader, codecOut>>
payVars == <<ppc, payReq, payAmount, payCalls, payTransfer, payOut, payTrace>>
helperVars == <<hpc, helperStatus, helperBody, helperParsed, helperIs402>>
builderVars == <<bpc, builderGiven, builderConfig, builderResource, builderDocs>>
concVars == <<shared, frames, calls, overlapped>>
facVars == <<fpc, facCall, facSent, facResp, facResult>>
fetchVars == <<dpc, dTimeoutMs, dElapsed, dTimer, dOut>>
composeVars == <<xpc, xConfig, xPath, xChallenge, xPay, xGate>>
vars == <<gateVars, clientVars, codecVars, payVars, helperVars, builderVars,
          concVars, facVars, fetchVars, composeVars>>

Undefined == "undefined"

\* JavaScript truthiness of a string-or-undefined value
Truthy(s) == s # Undefined /\ s # ""

DEFAULT_TIMEOUT_MS == 15000
MAX_PAYMENT_HEADER_BYTES == 16384
PAYMENT_HEADER_NAME == "X-Payment"
DEFAULT_FACILITATOR_URL == "https://x402.kamiyo.ai"

(***************************************************************************)
(* Strings and JSON texts                                                  *)
(***************************************************************************)

\* The text a header base64-decodes to, as JSON.parse sees it:
\*   garbage  not JSON (JSON.parse throws SyntaxError)
\*   null     the JSON value null (property access throws TypeError)
\*   scalar   a JSON number, string or boolean (every property undefined)
\*   object   a JSON object; x402Version 0 stands for a missing or
\*            non-numeric version, hasPayload FALSE for a missing payload
NonObjectText(k) ==
  [kind |-> k, x402Version |-> 0, scheme |-> Undefined, hasPayload |-> FALSE,
   signature |-> Undefined, resource |-> Undefined, network |-> Undefined,
   amountHidden |-> FALSE, payTo |-> Undefined, sender |-> Undefined]

Schemes == {Undefined, "shadowwire", "shadow", "stripe"}
Paths == {"/api/data", "/api/other"}
ProofResources == {Undefined, ""} \cup Paths

\* an object whose network, amountHidden, payTo and sender are those of the
\* tests' validProof()
ObjectText(v, sch, hp, sig, rsrc) ==
  [kind |-> "object", x402Version |-> v, scheme |-> sch, hasPayload |-> hp,
   signature |-> sig, resource |-> rsrc, network |-> "solana:mainnet",
   amountHidden |-> hp,
   payTo |-> IF hp THEN "merchant_wallet" ELSE Undefined,
   sender |-> IF hp THEN "sender_wallet" ELSE Undefined]

\* the proof of the tests' validProof()
ValidProofText == ObjectText(2, "shadowwire", TRUE, "abc123sig", "/api/data")

ObjectTexts ==
  {ObjectText(2, sch, TRUE, "abc123sig", rsrc) : sch \in Schemes, rsrc \in ProofResources}
  \cup {ObjectText(2, sch, TRUE, sig, "/api/data") : sch \in Schemes, sig \in {Undefined, ""}}
  \cup {ObjectText(2, sch, FALSE, Undefined, Undefined) : sch \in Schemes}
  \cup {ObjectText(v, "shadowwire", TRUE, "abc123sig", "/api/data") : v \in {0, 1}}

Texts == {NonObjectText("garbage"), NonObjectText("null"), NonObjectText("scalar")}
         \cup ObjectTexts

\* Header strings: byte length and decoded text.  The empty string has no
\* bytes; an absent header is the value NoHeader.
SmallHeaderBytes == 200
HugeHeaderBytes == 20000
AcceptedLengths == {SmallHeaderBytes, MAX_PAYMENT_HEADER_BYTES}
OversizeLengths == {MAX_PAYMENT_HEADER_BYTES + 1, HugeHeaderBytes}

NoHeader == [present |-> FALSE, bytes |-> 0, text |-> NonObjectText("garbage")]
EmptyHeader == [present |-> TRUE, bytes |-> 0, text |-> NonObjectText("garbage")]
HeaderStrings ==
  [present : {TRUE}, bytes : AcceptedLengths, text : Texts]
  \cup [present : {TRUE}, bytes : OversizeLengths,
        text : {ValidProofText, NonObjectText("garbage")}]
ValidHeader == [present |-> TRUE, bytes |-> SmallHeaderBytes, text |-> ValidProofText]

\* !paymentHeader
HeaderFalsy(h) == ~h.present \/ h.bytes = 0

fromBase64(encoded) == encoded.text

byteLength(str) == str.bytes

\* isShadowwire that takes any scheme that is given
isShadowwireAnyScheme(scheme) == scheme # Undefined

isShadowwire(scheme) == scheme = "shadowwire" \/ scheme = "shadow"

\* JSON.parse: throws on text that is not JSON
JSONparse(text) ==
  IF text.kind = "garbage" THEN [throws |-> TRUE, value |-> text]
  ELSE [throws |-> FALSE, value |-> text]

NullProof == [isNull |-> TRUE, value |-> NonObjectText("null")]

\* decoded.payload?.signature
PayloadSignature(decoded) ==
  IF decoded.hasPayload THEN decoded.signature ELSE Undefined

\* proof.payload?.resource
PayloadResource(decoded) ==
  IF decoded.hasPayload THEN decoded.resource ELSE Undefined


\* decodePaymentHeader without the version test (the earlier revision)
decodePaymentHeaderAnyVersion(header) ==
  IF byteLength(header) > MAX_PAYMENT_HEADER_BYTES THEN NullProof
  ELSE LET parsed == JSONparse(fromBase64(header)) IN
       IF parsed.throws THEN NullProof
       ELSE IF parsed.value.kind = "null" THEN NullProof
       ELSE IF ~Truthy(parsed.value.scheme)
               \/ ~Truthy(PayloadSignature(parsed.value)) THEN NullProof
       ELSE [isNull |-> FALSE, value |-> parsed.value]

decodePaymentHeader(header) ==
  IF byteLength(header) > MAX_PAYMENT_HEADER_BYTES THEN NullProof
  ELSE LET parsed == JSONparse(fromBase64(header)) IN
       IF parsed.throws THEN NullProof                     \* catch
       ELSE IF parsed.value.kind = "null" THEN NullProof   \* TypeError, catch
       ELSE IF parsed.value.x402Version # 2 THEN NullProof
       ELSE IF ~Truthy(parsed.value.scheme)
               \/ ~Truthy(PayloadSignature(parsed.value)) THEN NullProof
       ELSE [isNull |-> FALSE, value |-> parsed.value]

\* An X402PaymentProof object, as the literal that pay() builds
PaymentProof(v, sch, net, sig, hidden, rsrc, to, from) ==
  [x402Version |-> v, scheme |-> sch, network |-> net,
   payload |-> [signature |-> sig, amountHidden |-> hidden, resource |-> rsrc,
                payTo |-> to, sender |-> from]]

\* the tests' validProof()
validProof ==
  PaymentProof(2, "shadowwire", "solana:mainnet", "abc123sig", TRUE,
               "/api/data", "merchant_wallet", "sender_wallet")

RECURSIVE Repeat(_, _)
\* String.prototype.repeat
Repeat(s, n) ==
  IF n = 0 THEN ""
  ELSE IF n % 2 = 0 THEN LET half == Repeat(s, n \div 2) IN half \o half
  ELSE s \o Repeat(s, n - 1)

\* 'x'.repeat(20_000)
HugeString == Repeat("x", HugeHeaderBytes)

Quote(s) == "\"" \o s \o "\""

\* JSON.stringify of one string-valued property: a property whose value is
\* undefined is left out
StringMember(name, value) ==
  IF value = Undefined THEN <<>> ELSE <<Quote(name) \o ":" \o Quote(value)>>

BooleanMember(name, value) ==
  <<Quote(name) \o ":" \o (IF value THEN "true" ELSE "false")>>

RECURSIVE Join(_)
Join(members) ==
  IF members = <<>> THEN ""
  ELSE IF Len(members) = 1 THEN members[1]
  ELSE members[1] \o "," \o Join(Tail(members))

JSONObject(members) == "{" \o Join(members) \o "}"

\* the characters JSON.stringify(proof) produces
ProofJSON(p) ==
  JSONObject(
    <<Quote("x402Version") \o ":" \o ToString(p.x402Version)>>
    \o StringMember("scheme", p.scheme)
    \o StringMember("network", p.network)
    \o <<Quote("payload") \o ":" \o
         JSONObject(StringMember("signature", p.payload.signature)
                    \o BooleanMember("amountHidden", p.payload.amountHidden)
                    \o StringMember("resource", p.payload.resource)
                    \o StringMember("payTo", p.payload.payTo)
                    \o StringMember("sender", p.payload.sender))>>)

\* what JSON.parse reads back from ProofJSON(p)
ProofText(p) ==
  [kind |-> "object", x402Version |-> p.x402Version, scheme |-> p.scheme,
   hasPayload |-> TRUE, signature |-> p.payload.signature,
   resource |-> p.payload.resource, network |-> p.network,
   amountHidden |-> p.payload.amountHidden, payTo |-> p.payload.payTo,
   sender |-> p.payload.sender]

\* JSON.stringify that leaves out the optional sender
JSONstringifyWithoutSender(p) ==
  LET q == [p EXCEPT !.payload.sender = Undefined]
  IN [present |-> TRUE, bytes |-> Len(ProofJSON(q)), text |-> ProofText(q)]

\* JSON.stringify(proof): a string of Len(ProofJSON(p)) bytes (the texts of
\* the model are ASCII)
JSONstringify(p) ==
  [present |-> TRUE, bytes |-> Len(ProofJSON(p)), text |-> ProofText(p)]

\* Buffer.from(input, 'utf-8').toString('base64'): four characters for
\* every three bytes, the last group padded
toBase64(input) ==
  [present |-> TRUE, bytes |-> 4 * ((input.bytes + 2) \div 3),
   text |-> input.text]

encodePaymentHeader(p) == toBase64(JSONstringify(p))

(***************************************************************************)
(* Challenge documents                                                     *)
(***************************************************************************)

\* A decimal string is the sequence of its characters.
DigitChars == <<"0", "1", "2", "3", "4", "5", "6", "7", "8", "9">>

RECURSIVE Digits(_)
Digits(n) ==
  IF n < 10 THEN <<DigitChars[n + 1]>>
  ELSE Append(Digits(n \div 10), DigitChars[(n % 10) + 1])

\* Number.prototype.toString() of an integer
NumberToString(n) == IF n < 0 THEN <<"-">> \o Digits(-n) ELSE Digits(n)

IsDigit(c) == \E i \in 1..10 : DigitChars[i] = c
DigitValue(c) == (CHOOSE i \in 1..10 : DigitChars[i] = c) - 1

RECURSIVE DigitPrefixValue(_, _, _)
\* value of the longest prefix of digits of str from position i on, given
\* the value acc of the digits read so far
DigitPrefixValue(str, i, acc) ==
  IF i > Len(str) \/ ~IsDigit(str[i]) THEN acc
  ELSE DigitPrefixValue(str, i + 1, acc * 10 + DigitValue(str[i]))

\* parseInt(str, 10): optional sign, then the longest prefix of digits;
\* NaN when there is no digit
parseInt(str) ==
  LET signed == Len(str) > 0 /\ str[1] \in {"-", "+"}
      first == IF signed THEN 2 ELSE 1
      magnitude == DigitPrefixValue(str, first, 0)
  IN IF first > Len(str) \/ ~IsDigit(str[first])
     THEN [nan |-> TRUE, value |-> 0]
     ELSE [nan |-> FALSE,
           value |-> IF signed /\ str[1] = "-" THEN -magnitude ELSE magnitude]

\* Math.floor(config.amount * 1_000_000); config.amount is a JavaScript
\* number, which the model holds in units of 10^-7 (amountE7) so that
\* Math.floor has something to cut
MicroAmount(cf) == cf.amountE7 \div 10

\* asset || 'USDC'
AssetOrDefault(asset) == IF Truthy(asset) THEN asset ELSE "USDC"

\* config.facilitatorUrl || DEFAULT_FACILITATOR_URL
FacilitatorOf(cf) ==
  IF Truthy(cf.facilitatorUrl) THEN cf.facilitatorUrl ELSE DEFAULT_FACILITATOR_URL

LightningOffer ==
  [scheme |-> "lightning", network |-> "bitcoin",
   amount |-> <<"1", "0", "0", "0", "0">>,
   asset |-> "USDC", payTo |-> "merchant_wallet", resource |-> "/api/data"]

\* the tests' middlewareConfig(), with each kind of onPayment, and a
\* configuration that leaves the optional fields out and adds an offer
MiddlewareConfigs ==
  [payTo : {"merchant_wallet"}, amountE7 : {100000}, asset : {"USDC"},
   facilitatorUrl : {"https://facilitator.test"},
   apiKey : {"test-key"}, additionalSchemes : {<<>>},
   onPayment : {"none", "returns", "throws"}]
  \cup
  [payTo : {"merchant_wallet"}, amountE7 : {100000}, asset : {Undefined},
   facilitatorUrl : {Undefined},
   apiKey : {"test-key"}, additionalSchemes : {<<LightningOffer>>},
   onPayment : {"throws"}]

NoConfig ==
  [payTo |-> Undefined, amountE7 |-> 0, asset |-> Undefined,
   facilitatorUrl |-> Undefined, apiKey |-> Undefined,
   additionalSchemes |-> <<>>, onPayment |-> "none"]

\* the requirement literal of createPaymentRequired and of the middleware
ShadowwireRequirement(rsrc, cf) ==
  [scheme |-> "shadowwire", network |-> "solana:mainnet",
   amount |-> NumberToString(MicroAmount(cf)),
   asset |-> AssetOrDefault(cf.asset),
   payTo |-> cf.payTo, resource |-> rsrc]


\* createPaymentRequired that lists the additional offers first
createPaymentRequiredExtrasFirst(rsrc, cf) ==
  [x402Version |-> 2,
   accepts |-> cf.additionalSchemes \o <<ShadowwireRequirement(rsrc, cf)>>,
   error |-> "Payment Required",
   facilitator |-> FacilitatorOf(cf),
   resourceUrl |-> rsrc,
   verifyError |-> Undefined,
   settleError |-> Undefined]

createPaymentRequired(rsrc, cf) ==
  [x402Version |-> 2,
   accepts |-> <<ShadowwireRequirement(rsrc, cf)>> \o cf.additionalSchemes,
   error |-> "Payment Required",
   facilitator |-> FacilitatorOf(cf),
   resourceUrl |-> rsrc,
   verifyError |-> Undefined,
   settleError |-> Undefined]

\* the body of the 400 response: { error: <X402HeaderTooLargeError message> }
HeaderTooLargeMessage(size) ==
  IF size # 0 THEN "Payment header exceeds size limit (" \o ToString(size) \o " bytes)"
  ELSE "Payment header exceeds size limit"

ErrorBody(msg) ==
  [x402Version |-> 0, accepts |-> <<>>, error |-> msg,
   facilitator |-> Undefined, resourceUrl |-> Undefined,
   verifyError |-> Undefined, settleError |-> Undefined]

NoBody == ErrorBody(Undefined)

(***************************************************************************)
(* Facilitator client                                                      *)
(***************************************************************************)

\* What globalThis.fetch does under timedFetch: it rejects (connection
\* error, or AbortError when the timer fires), or resolves with a Response
\* whose json() yields an object or rejects.  flag is data.valid / data.success,
\* id is data.payer / data.txHash.
Statuses == {200, 403, 500}
RemoteErrors == {Undefined, "", "Invalid signature"}
RemoteIds == {Undefined, "sender_wallet"}

FetchRejections ==
  [kind : {"reject"}, message : {"ECONNREFUSED", "This operation was aborted"},
   status : {0}, json : {FALSE}, flag : {FALSE}, id : {Undefined},
   error : {Undefined}]

FacilitatorResponses ==
  FetchRejections
  \cup [kind : {"http"}, message : {Undefined}, status : Statuses, json : {TRUE},
        flag : BOOLEAN, id : RemoteIds, error : RemoteErrors]
  \cup [kind : {"http"}, message : {Undefined}, status : Statuses, json : {FALSE},
        flag : {FALSE}, id : {Undefined}, error : {Undefined}]

\* Response.ok that also takes 402 for a success
OkOr402(status) == (status >= 200 /\ status < 300) \/ status = 402

\* Response.ok
Ok(status) == status >= 200 /\ status < 300

\* (await safeParseBody(res))?.error
BodyError(r) == IF r.json THEN r.error ELSE Undefined


\* X402FacilitatorErrorMessage that prefixes the message
X402FacilitatorErrorPrefixed(message) == "Facilitator error: " \o message

\* new X402FacilitatorError(message).message
X402FacilitatorErrorMessage(message) == message

NoVerifyResult == [valid |-> FALSE, payer |-> Undefined, error |-> Undefined]

\* verifyPayment that reads the body whatever the status
VerifyResultOfAnyStatus(r) ==
  IF r.kind = "reject"
  THEN [valid |-> FALSE, payer |-> Undefined,
        error |-> X402FacilitatorErrorMessage(r.message)]
  ELSE IF r.json
  THEN [valid |-> r.flag, payer |-> r.id, error |-> r.error]
  ELSE [valid |-> FALSE, payer |-> Undefined, error |-> Undefined]

\* verifyPayment after its fetch has settled with r (lines 401-419)
VerifyResultOf(r) ==
  IF r.kind = "reject"
  THEN [valid |-> FALSE, payer |-> Undefined,
        error |-> X402FacilitatorErrorMessage(r.message)]
  ELSE IF ~Ok(r.status)
  THEN [valid |-> FALSE, payer |-> Undefined,
        error |-> X402FacilitatorErrorMessage(
                    IF Truthy(BodyError(r)) THEN BodyError(r)
                    ELSE "Facilitator returned " \o ToString(r.status))]
  ELSE IF r.json
  THEN [valid |-> r.flag, payer |-> r.id, error |-> r.error]
  ELSE [valid |-> FALSE, payer |-> Undefined, error |-> Undefined]

NoSettleResult == [success |-> FALSE, txHash |-> Undefined, error |-> Undefined]

\* settlePayment that reads the body whatever the status
SettleResultOfAnyStatus(r) ==
  IF r.kind = "reject"
  THEN [success |-> FALSE, txHash |-> Undefined,
        error |-> X402FacilitatorErrorMessage(r.message)]
  ELSE IF r.json
  THEN [success |-> r.flag, txHash |-> r.id, error |-> r.error]
  ELSE [success |-> FALSE, txHash |-> Undefined, error |-> Undefined]

\* settlePayment after its fetch has settled with r (lines 442-460)
SettleResultOf(r) ==
  IF r.kind = "reject"
  THEN [success |-> FALSE, txHash |-> Undefined,
        error |-> X402FacilitatorErrorMessage(r.message)]
  ELSE IF ~Ok(r.status)
  THEN [success |-> FALSE, txHash |-> Undefined,
        error |-> X402FacilitatorErrorMessage(
                    IF Truthy(BodyError(r)) THEN BodyError(r)
                    ELSE "Settlement returned " \o ToString(r.status))]
  ELSE IF r.json
  THEN [success |-> r.flag, txHash |-> r.id, error |-> r.error]
  ELSE [success |-> FALSE, txHash |-> Undefined, error |-> Undefined]

(***************************************************************************)
(* x402Paywall                                                             *)
(***************************************************************************)

NoHeaders == [defined |-> FALSE, lower |-> NoHeader, upper |-> NoHeader]

\* req.headers: undefined, or an object that may hold the header under
\* 'x-payment' or under 'X-Payment'
RequestHeaders ==
  {NoHeaders}
  \cup [defined : {TRUE}, lower : {NoHeader, EmptyHeader} \cup HeaderStrings,
        upper : {NoHeader}]
  \cup [defined : {TRUE}, lower : {NoHeader, EmptyHeader},
        upper : {EmptyHeader, ValidHeader}]

NoX402 == [attached |-> FALSE, payer |-> Undefined, txHash |-> Undefined,
           scheme |-> Undefined]

Requests ==
  [path : Paths, url : {"/api/data"}, headers : RequestHeaders, x402 : {NoX402}]
  \cup [path : {Undefined}, url : {Undefined, "/api/data"},
        headers : RequestHeaders, x402 : {NoX402}]

NoRequest == [path |-> Undefined, url |-> Undefined, headers |-> NoHeaders,
              x402 |-> NoX402]

\* req.path || req.url || '/'
ResourceOf(r) ==
  IF Truthy(r.path) THEN r.path ELSE IF Truthy(r.url) THEN r.url ELSE "/"

\* req.headers && (req.headers['x-payment'] || req.headers['X-Payment'])
PaymentHeaderOf(r) ==
  IF ~r.headers.defined THEN NoHeader
  ELSE IF ~HeaderFalsy(r.headers.lower) THEN r.headers.lower
  ELSE r.headers.upper


\* HeaderTooLarge without the comparison
HeaderTooLargeNever(h) == FALSE

\* byteLength(paymentHeader) > MAX_PAYMENT_HEADER_BYTES
HeaderTooLarge(h) == byteLength(h) > MAX_PAYMENT_HEADER_BYTES


\* ProofRejected without the scheme test
ProofRejectedAnyScheme(p) == p.isNull

\* !proof || !isShadowwire(proof.scheme)
ProofRejected(p) == p.isNull \/ ~isShadowwire(p.value.scheme)


\* ResourceMismatch without the comparison (the gate of the earlier revision)
ResourceMismatchNever(p, rsrc) == FALSE

\* proof.payload?.resource && proof.payload.resource !== resource
ResourceMismatch(p, rsrc) ==
  Truthy(PayloadResource(p.value)) /\ PayloadResource(p.value) # rsrc


\* VerifyFailed that lets every verify result through
VerifyFailedNever(vr) == FALSE

\* !verifyResult.valid
VerifyFailed(vr) == ~vr.valid

\* !settleResult.success
SettleFailed(sr) == ~sr.success

\* config.onPayment && verifyResult.payer && settleResult.txHash
CallbackDue(cf, vr, sr) ==
  cf.onPayment # "none" /\ Truthy(vr.payer) /\ Truthy(sr.txHash)


\* AfterCallback without the try/catch: the exception leaves the middleware
AfterCallbackUncaught(threw) == IF threw THEN "rejected" ELSE "next"

\* where the middleware continues after try { config.onPayment(...) } catch {}
AfterCallback(threw) == "next"

FullChallengeHeaders ==
  {<<"WWW-Authenticate", "X402">>, <<"X-Payment-Schemes", "shadowwire">>,
   <<"Vary", PAYMENT_HEADER_NAME>>, <<"Cache-Control", "no-store">>}

ChallengeHeaders ==
  {<<"WWW-Authenticate", "X402">>, <<"Vary", PAYMENT_HEADER_NAME>>,
   <<"Cache-Control", "no-store">>}

NoResponse == [sent |-> 0, status |-> 0, headers |-> {}, body |-> NoBody]

\* a response that is sent without the return: the middleware runs on to
\* next()
RespondWithoutReturn(code, hdrs, body) ==
  /\ res' = [sent |-> res.sent + 1, status |-> code,
             headers |-> res.headers \cup hdrs, body |-> body]
  /\ trace' = Append(trace, "respond")
  /\ gpc' = "next"

\* res.setHeader(...) for each of hdrs; return res.status(code).json(body)
Respond(code, hdrs, body) ==
  /\ res' = [sent |-> res.sent + 1, status |-> code,
             headers |-> res.headers \cup hdrs, body |-> body]
  /\ trace' = Append(trace, "respond")
  /\ gpc' = "done"

\* The host calls the middleware with a request.
GateInvoke ==
  /\ gpc = "idle"
  /\ \E r \in Requests, cf \in MiddlewareConfigs :
       /\ req' = r
       /\ config' = cf
       /\ resource' = ResourceOf(r)
       /\ paymentHeader' = PaymentHeaderOf(r)
  /\ gpc' = "checkHeader"
  /\ UNCHANGED <<proof, verifyResult, settleResult, res, verifyResp,
                 settleResp, inflight, trace, clientVars, codecVars, payVars, helperVars, builderVars, concVars, facVars, fetchVars, composeVars>>

\* lines 469-476
GateCheckHeader ==
  /\ gpc = "checkHeader"
  /\ IF HeaderFalsy(paymentHeader)
     THEN Respond(402, FullChallengeHeaders, createPaymentRequired(resource, config))
     ELSE gpc' = "checkSize" /\ UNCHANGED <<res, trace>>
  /\ UNCHANGED <<req, config, resource, paymentHeader, proof, verifyResult,
                 settleResult, verifyResp, settleResp, inflight, clientVars, codecVars, payVars, helperVars, builderVars, concVars, facVars, fetchVars, composeVars>>

\* lines 478-480
GateCheckSize ==
  /\ gpc = "checkSize"
  /\ IF HeaderTooLarge(paymentHeader)
     THEN Respond(400, {}, ErrorBody(HeaderTooLargeMessage(byteLength(paymentHeader))))
     ELSE gpc' = "decode" /\ UNCHANGED <<res, trace>>
  /\ UNCHANGED <<req, config, resource, paymentHeader, proof, verifyResult,
                 settleResult, verifyResp, settleResp, inflight, clientVars, codecVars, payVars, helperVars, builderVars, concVars, facVars, fetchVars, composeVars>>

\* line 482
GateDecode ==
  /\ gpc = "decode"
  /\ proof' = decodePaymentHeader(paymentHeader)
  /\ trace' = Append(trace, "decodePaymentHeader")
  /\ gpc' = "checkProof"
  /\ UNCHANGED <<req, config, resource, paymentHeader, verifyResult, res,
                 settleResult, verifyResp, settleResp, inflight, clientVars, codecVars, payVars, helperVars, builderVars, concVars, facVars, fetchVars, composeVars>>

\* lines 483-490
GateCheckProof ==
  /\ gpc = "checkProof"
  /\ IF ProofRejected(proof)
     THEN Respond(402, ChallengeHeaders,
                  [createPaymentRequired(resource, config) EXCEPT
                     !.verifyError = "Invalid or unsupported payment proof"])
     ELSE gpc' = "checkResource" /\ UNCHANGED <<res, trace>>
  /\ UNCHANGED <<req, config, resource, paymentHeader, proof, verifyResult,
                 settleResult, verifyResp, settleResp, inflight, clientVars, codecVars, payVars, helperVars, builderVars, concVars, facVars, fetchVars, composeVars>>

\* lines 504-511
GateCheckResource ==
  /\ gpc = "checkResource"
  /\ IF ResourceMismatch(proof, resource)
     THEN Respond(402, ChallengeHeaders,
                  [createPaymentRequired(resource, config) EXCEPT
                     !.verifyError = "Payment proof resource mismatch"])
     ELSE gpc' = "callVerify" /\ UNCHANGED <<res, trace>>
  /\ UNCHANGED <<req, config, resource, paymentHeader, proof, verifyResult,
                 settleResult, verifyResp, settleResp, inflight, clientVars, codecVars, payVars, helperVars, builderVars, concVars, facVars, fetchVars, composeVars>>

NoFetch == [kind |-> "none", message |-> Undefined, status |-> 0,
            json |-> FALSE, flag |-> FALSE, id |-> Undefined,
            error |-> Undefined]

\* line 515 up to the await inside verifyPayment (lines 384-399)
GateCallVerify ==
  /\ gpc = "callVerify"
  /\ IF byteLength(paymentHeader) > MAX_PAYMENT_HEADER_BYTES
     THEN /\ verifyResult' =
               [valid |-> FALSE, payer |-> Undefined,
                error |-> HeaderTooLargeMessage(byteLength(paymentHeader))]
          /\ trace' = Append(trace, "verifyPayment")
          /\ gpc' = "afterVerify"
          /\ UNCHANGED inflight
     ELSE /\ inflight' = [inflight EXCEPT !.verify = @ + 1]
          /\ trace' = trace \o <<"verifyPayment", "fetch /verify">>
          /\ gpc' = "awaitVerify"
          /\ UNCHANGED verifyResult
  /\ UNCHANGED <<req, config, resource, paymentHeader, proof, settleResult,
                 res, verifyResp, settleResp, clientVars, codecVars, payVars, helperVars, builderVars, concVars, facVars, fetchVars, composeVars>>

\* the /verify fetch settles and verifyPayment returns (lines 401-419)
GateVerifyReturns ==
  /\ gpc = "awaitVerify"
  /\ inflight.verify > 0
  /\ inflight' = [inflight EXCEPT !.verify = @ - 1]
  /\ \E r \in FacilitatorResponses :
       /\ verifyResp' = r
       /\ verifyResult' = VerifyResultOf(r)
  /\ gpc' = "afterVerify"
  /\ UNCHANGED <<req, config, resource, paymentHeader, proof, settleResult,
                 res, settleResp, trace, clientVars, codecVars, payVars, helperVars, builderVars, concVars, facVars, fetchVars, composeVars>>

\* lines 517-524
GateAfterVerify ==
  /\ gpc = "afterVerify"
  /\ IF VerifyFailed(verifyResult)
     THEN Respond(402, ChallengeHeaders,
                  [createPaymentRequired(resource, config) EXCEPT
                     !.verifyError = verifyResult.error])
     ELSE gpc' = "callSettle" /\ UNCHANGED <<res, trace>>
  /\ UNCHANGED <<req, config, resource, paymentHeader, proof, verifyResult,
                 settleResult, verifyResp, settleResp, inflight, clientVars, codecVars, payVars, helperVars, builderVars, concVars, facVars, fetchVars, composeVars>>

\* line 526 up to the await inside settlePayment (lines 429-440)
GateCallSettle ==
  /\ gpc = "callSettle"
  /\ inflight' = [inflight EXCEPT !.settle = @ + 1]
  /\ trace' = trace \o <<"settlePayment", "fetch /settle">>
  /\ gpc' = "awaitSettle"
  /\ UNCHANGED <<req, config, resource, paymentHeader, proof, verifyResult,
                 settleResult, res, verifyResp, settleResp, clientVars, codecVars, payVars, helperVars, builderVars, concVars, facVars, fetchVars, composeVars>>

\* the /settle fetch settles and settlePayment returns (lines 442-460)
GateSettleReturns ==
  /\ gpc = "awaitSettle"
  /\ inflight.settle > 0
  /\ inflight' = [inflight EXCEPT !.settle = @ - 1]
  /\ \E r \in FacilitatorResponses :
       /\ settleResp' = r
       /\ settleResult' = SettleResultOf(r)
  /\ gpc' = "afterSettle"
  /\ UNCHANGED <<req, config, resource, paymentHeader, proof, verifyResult,
                 res, verifyResp, trace, clientVars, codecVars, payVars, helperVars, builderVars, concVars, facVars, fetchVars, composeVars>>

\* lines 527-534
GateAfterSettle ==
  /\ gpc = "afterSettle"
  /\ IF SettleFailed(settleResult)
     THEN Respond(402, ChallengeHeaders,
                  [createPaymentRequired(resource, config) EXCEPT
                     !.settleError = settleResult.error])
     ELSE gpc' = "authorize" /\ UNCHANGED <<res, trace>>
  /\ UNCHANGED <<req, config, resource, paymentHeader, proof, verifyResult,
                 settleResult, verifyResp, settleResp, inflight, clientVars, codecVars, payVars, helperVars, builderVars, concVars, facVars, fetchVars, composeVars>>

\* lines 536-546
GateAuthorize ==
  /\ gpc = "authorize"
  /\ req' = [req EXCEPT !.x402 =
               [attached |-> TRUE, payer |-> verifyResult.payer,
                txHash |-> settleResult.txHash, scheme |-> "shadowwire"]]
  /\ trace' = Append(trace, "req.x402")
  /\ gpc' = IF CallbackDue(config, verifyResult, settleResult)
            THEN "callback" ELSE "next"
  /\ UNCHANGED <<config, resource, paymentHeader, proof, verifyResult,
                 settleResult, res, verifyResp, settleResp, inflight,
                 clientVars, codecVars, payVars, helperVars, builderVars, concVars, facVars, fetchVars, composeVars>>

\* lines 547-551: the callback runs, and returns or throws
GateCallback ==
  /\ gpc = "callback"
  /\ trace' = Append(trace, "onPayment")
  /\ gpc' = AfterCallback(config.onPayment = "throws")
  /\ UNCHANGED <<req, config, resource, paymentHeader, proof, verifyResult,
                 settleResult, res, verifyResp, settleResp, inflight,
                 clientVars, codecVars, payVars, helperVars, builderVars, concVars, facVars, fetchVars, composeVars>>

\* line 554
GateCallNext ==
  /\ gpc = "next"
  /\ trace' = Append(trace, "next")
  /\ gpc' = "done"
  /\ UNCHANGED <<req, config, resource, paymentHeader, proof, verifyResult,
                 settleResult, res, verifyResp, settleResp, inflight,
                 clientVars, codecVars, payVars, helperVars, builderVars, concVars, facVars, fetchVars, composeVars>>

GateInit ==
  /\ gpc = "idle"
  /\ req = NoRequest
  /\ config = NoConfig
  /\ resource = Undefined
  /\ paymentHeader = NoHeader
  /\ proof = NullProof
  /\ verifyResult = NoVerifyResult
  /\ settleResult = NoSettleResult
  /\ res = NoResponse
  /\ verifyResp = NoFetch
  /\ settleResp = NoFetch
  /\ inflight = [verify |-> 0, settle |-> 0]
  /\ trace = <<>>

GateStep ==
  \/ GateInvoke
  \/ GateCheckHeader
  \/ GateCheckSize
  \/ GateDecode
  \/ GateCheckProof
  \/ GateCheckResource
  \/ GateCallVerify
  \/ GateVerifyReturns
  \/ GateAfterVerify
  \/ GateCallSettle
  \/ GateSettleReturns
  \/ GateAfterSettle
  \/ GateAuthorize
  \/ GateCallback
  \/ GateCallNext

(***************************************************************************)
(* X402Client.request()                                                    *)
(***************************************************************************)

\* largest maxRetries the model configures
MaxRetriesBound == 3

\* the argument of the constructor: maxRetries is given (configured) or
\* left out, and so is requestTimeoutMs (timed)
ClientConfigs ==
  [configured : {TRUE}, maxRetries : 0..MaxRetriesBound,
   timed : {FALSE}, requestTimeoutMs : {5000},
   senderWallet : {"sender_wallet"}]
  \cup [configured : {FALSE}, maxRetries : {0},
         timed : BOOLEAN, requestTimeoutMs : {5000},
         senderWallet : {"sender_wallet"}]

\* a constructor whose default is three retries
MaxRetriesOrThree(c) == IF c.configured THEN c.maxRetries ELSE 3

\* config.maxRetries ?? 1
MaxRetriesOf(c) == IF c.configured THEN c.maxRetries ELSE 1

\* config.requestTimeoutMs ?? DEFAULT_TIMEOUT_MS
TimeoutOf(c) == IF c.timed THEN c.requestTimeoutMs ELSE DEFAULT_TIMEOUT_MS

\* the fields the constructor sets (lines 142-150)
X402ClientOf(c) ==
  [maxRetries |-> MaxRetriesOf(c), timeoutMs |-> TimeoutOf(c),
   senderWallet |-> c.senderWallet, configured |-> c.configured]

NoClientConfig == [maxRetries |-> 0, timeoutMs |-> 0, senderWallet |-> Undefined,
                   configured |-> FALSE]

Offer(sch, net, amt) ==
  [scheme |-> sch, network |-> net, amount |-> amt, asset |-> "USDC",
   payTo |-> "merchant_wallet", resource |-> "/api/data"]

\* the tests' baseRequirement()
BaseRequirement == Offer("shadowwire", "solana:mainnet", <<"1", "0", "0", "0", "0">>)
StripeOffer == Offer("stripe", "solana:mainnet", <<"1", "0", "0", "0", "0">>)
ShadowOffer == Offer("shadow", "solana:mainnet", <<"2", "5">>)
ZeroOffer == Offer("shadowwire", "solana:mainnet", <<"0">>)
TextOffer == Offer("shadowwire", "solana:mainnet", <<"a", "b", "c">>)
NoOffer == Offer(Undefined, Undefined, <<>>)

AcceptsLists ==
  {<<>>, <<BaseRequirement>>, <<StripeOffer>>, <<StripeOffer, ShadowOffer>>,
   <<ShadowOffer, BaseRequirement>>, <<ZeroOffer>>, <<TextOffer, BaseRequirement>>}

\* What response.json() yields: it rejects (json FALSE), or gives an object
\* with or without an accepts list.  data names the object.
Bodies ==
  {[json |-> FALSE, data |-> Undefined, x402Version |-> 0,
    hasAccepts |-> FALSE, accepts |-> <<>>],
   [json |-> TRUE, data |-> "premium", x402Version |-> 0,
    hasAccepts |-> FALSE, accepts |-> <<>>]}
  \cup [json : {TRUE}, data : {"challenge"}, x402Version : {1, 2},
        hasAccepts : {TRUE}, accepts : AcceptsLists]

NoBodyRead == [json |-> FALSE, data |-> Undefined, x402Version |-> 0,
               hasAccepts |-> FALSE, accepts |-> <<>>]

ClientStatuses == {200, 402, 404, 500}

StatusText(status) == IF status = 200 THEN "OK" ELSE "Error"

\* What globalThis.fetch does under doFetch: it rejects with an error (an
\* AbortError when the timer fired), or resolves with a Response.
ClientFetches ==
  [kind : {"reject"}, name : {"AbortError", "TypeError"},
   message : {"fetch failed"}, status : {0}, body : {NoBodyRead}]
  \cup [kind : {"http"}, name : {Undefined}, message : {Undefined},
        status : ClientStatuses, body : Bodies]

NoClientFetch == [kind |-> "none", name |-> Undefined, message |-> Undefined,
                  status |-> 0, body |-> NoBodyRead]

\* doFetch that reports every rejection of the fetch as a failed request
doFetchOneError(f, timeoutMs) ==
  IF f.kind = "reject"
  THEN [throws |-> TRUE, error |-> "x402 request failed: " \o f.message,
        response |-> f]
  ELSE [throws |-> FALSE, error |-> Undefined, response |-> f]

\* doFetch (lines 314-327): a resolved fetch is returned, a rejected one is
\* rethrown as a NetworkError
doFetch(f, timeoutMs) ==
  IF f.kind = "reject"
  THEN [throws |-> TRUE,
        error |-> IF f.name = "AbortError"
                  THEN "x402 request timed out after " \o ToString(timeoutMs) \o "ms"
                  ELSE "x402 request failed: " \o f.message,
        response |-> f]
  ELSE [throws |-> FALSE, error |-> Undefined, response |-> f]

\* safeParseBody(response)?.accepts?.length, 0 when any link is undefined
AcceptsLength(body) ==
  IF body.json /\ body.hasAccepts THEN Len(body.accepts) ELSE 0

\* accepts.find that also takes an offer for its network (earlier revision)
findCompatibleRequirementByNetwork(accepts) ==
  LET hits == {i \in 1..Len(accepts) :
                 isShadowwire(accepts[i].scheme)
                 \/ accepts[i].network = "solana:mainnet"}
  IN IF hits = {} THEN [found |-> FALSE, requirement |-> NoOffer]
     ELSE [found |-> TRUE,
           requirement |-> accepts[CHOOSE i \in hits : \A j \in hits : i <= j]]

\* accepts.find((r) => isShadowwire(r.scheme)) || null
findCompatibleRequirement(accepts) ==
  LET hits == {i \in 1..Len(accepts) : isShadowwire(accepts[i].scheme)}
  IN IF hits = {} THEN [found |-> FALSE, requirement |-> NoOffer]
     ELSE [found |-> TRUE,
           requirement |-> accepts[CHOOSE i \in hits : \A j \in hits : i <= j]]

\* parseAmount that drops the sign of the parsed integer
parseAmountUnsigned(amountStr) ==
  LET raw == parseInt(amountStr)
  IN IF raw.nan \/ raw.value = 0 THEN 0
     ELSE IF raw.value < 0 THEN -raw.value ELSE raw.value

\* parseAmount (lines 293-303): 0 for an amount that is not a positive
\* integer, else the raw amount scaled down by a power of ten; the model
\* keeps the raw smallest-unit count, which has the same sign
parseAmount(amountStr) ==
  LET raw == parseInt(amountStr)
  IN IF raw.nan \/ raw.value <= 0 THEN 0 ELSE raw.value

\* client.transfer: it throws, or returns a TransferResponse
TransferOutcomes ==
  [kind : {"throws"}, message : {"rpc down"}, success : {FALSE},
   tx_signature : {Undefined}, amount_hidden : {FALSE}]
  \cup [kind : {"returns"}, message : {Undefined}, success : {FALSE},
        tx_signature : {Undefined}, amount_hidden : {FALSE}]
  \cup [kind : {"returns"}, message : {Undefined}, success : {TRUE},
        tx_signature : {"sig123"}, amount_hidden : BOOLEAN]

NoTransfer == [kind |-> "none", message |-> Undefined, success |-> FALSE,
               tx_signature |-> Undefined, amount_hidden |-> FALSE]

\* the proof literal of pay() (lines 230-241)
ProofOf(t, requirement, senderWallet) ==
  PaymentProof(2, "shadowwire", "solana:mainnet", t.tx_signature,
               t.amount_hidden, requirement.resource, requirement.payTo,
               senderWallet)

NoPayResult == [success |-> FALSE, hasTransfer |-> FALSE, transfer |-> NoTransfer,
                paymentHeader |-> NoHeader, error |-> Undefined,
                requirement |-> NoOffer]

\* pay() once client.transfer has settled with t (lines 228-247)
PayResultOf(t, requirement, senderWallet) ==
  IF t.kind = "throws"
  THEN [NoPayResult EXCEPT !.error = t.message, !.requirement = requirement]
  ELSE IF ~t.success
  THEN [NoPayResult EXCEPT !.error = "ShadowWire transfer failed",
                           !.requirement = requirement]
  ELSE [success |-> TRUE, hasTransfer |-> TRUE, transfer |-> t,
        paymentHeader |->
          encodePaymentHeader(ProofOf(t, requirement, senderWallet)),
        error |-> Undefined, requirement |-> requirement]

\* Math.min(250 * 2 ** attempt, 1000)
Backoff(n) == LET d == 250 * (2 ^ n) IN IF d < 1000 THEN d ELSE 1000

Pending == [state |-> "pending", success |-> FALSE, error |-> Undefined,
            statusCode |-> 0, data |-> Undefined, payment |-> FALSE]

\* return that attaches the payment metadata to every result
ReturnWithPayment(ok, err, code, data, pay) ==
  /\ outcome' = [state |-> "returned", success |-> ok, error |-> err,
                 statusCode |-> code, data |-> data, payment |-> TRUE]
  /\ cpc' = "done"

\* return that leaves the payment metadata out
ReturnWithoutPayment(ok, err, code, data, pay) ==
  /\ outcome' = [state |-> "returned", success |-> ok, error |-> err,
                 statusCode |-> code, data |-> data, payment |-> FALSE]
  /\ cpc' = "done"

\* return { success, data?, payment?, error?, statusCode }
Return(ok, err, code, data, pay) ==
  /\ outcome' = [state |-> "returned", success |-> ok, error |-> err,
                 statusCode |-> code, data |-> data, payment |-> pay]
  /\ cpc' = "done"

\* an exception that leaves request(): its promise rejects
Throw(err) ==
  /\ outcome' = [Pending EXCEPT !.state = "threw", !.error = err]
  /\ cpc' = "done"

\* request() is called: line 160 up to the await inside doFetch
RequestCall ==
  /\ cpc = "idle"
  /\ \E c \in ClientConfigs : cfg' = X402ClientOf(c)
  /\ fetches' = fetches + 1
  /\ sentHeaders' = Append(sentHeaders, NoHeader)
  /\ cpc' = "awaitInitial"
  /\ UNCHANGED <<initial, payResult, attempt, lastRes, transfers, slept,
                 outcome, gateVars, codecVars, payVars, helperVars, builderVars, concVars, facVars, fetchVars, composeVars>>

\* the first fetch settles: lines 160-182, and pay() up to its await
\* (lines 213-219)
InitialSettles ==
  /\ cpc = "awaitInitial"
  /\ \E f \in ClientFetches :
       LET d == doFetch(f, cfg.timeoutMs)
           r == d.response
           found == findCompatibleRequirement(r.body.accepts)
       IN
       /\ initial' = f
       /\ IF d.throws
          THEN Throw(d.error) /\ UNCHANGED <<payResult, transfers>>
          ELSE IF r.status # 402
          THEN /\ IF ~Ok(r.status)
                  THEN Return(FALSE,
                              "HTTP " \o ToString(r.status) \o ": " \o StatusText(r.status),
                              r.status, Undefined, FALSE)
                  ELSE Return(TRUE, Undefined, r.status, r.body.data, FALSE)
               /\ UNCHANGED <<payResult, transfers>>
          ELSE IF AcceptsLength(r.body) = 0
          THEN /\ Return(FALSE, "No accepted payment methods in 402 response",
                         402, Undefined, FALSE)
               /\ UNCHANGED <<payResult, transfers>>
          ELSE IF ~found.found
          THEN /\ Return(FALSE, "No compatible payment option (need ShadowWire)",
                         402, Undefined, FALSE)
               /\ UNCHANGED <<payResult, transfers>>
          ELSE IF parseAmount(found.requirement.amount) <= 0
          THEN /\ payResult' = [NoPayResult EXCEPT
                                  !.error = "Invalid payment amount",
                                  !.requirement = found.requirement]
               /\ Return(FALSE, "Invalid payment amount", 402, Undefined, FALSE)
               /\ UNCHANGED transfers
          ELSE /\ payResult' = [NoPayResult EXCEPT !.requirement = found.requirement]
               /\ transfers' = transfers + 1
               /\ cpc' = "awaitTransfer"
               /\ UNCHANGED outcome
  /\ UNCHANGED <<cfg, attempt, lastRes, fetches, sentHeaders, slept, gateVars, codecVars, payVars, helperVars, builderVars, concVars, facVars, fetchVars, composeVars>>

\* client.transfer settles: the rest of pay() (lines 228-247), lines 181-183
\* and the first paid fetch (lines 185-189)
TransferSettles ==
  /\ cpc = "awaitTransfer"
  /\ \E t \in TransferOutcomes :
       LET pr == PayResultOf(t, payResult.requirement, cfg.senderWallet) IN
       /\ payResult' = pr
       /\ IF ~pr.success \/ ~pr.hasTransfer \/ HeaderFalsy(pr.paymentHeader)
          THEN /\ Return(FALSE, IF Truthy(pr.error) THEN pr.error ELSE "Payment failed",
                         402, Undefined, FALSE)
               /\ UNCHANGED <<attempt, fetches, sentHeaders>>
          ELSE /\ attempt' = 0
               /\ fetches' = fetches + 1
               /\ sentHeaders' = Append(sentHeaders, pr.paymentHeader)
               /\ cpc' = "awaitPaid"
               /\ UNCHANGED outcome
  /\ UNCHANGED <<cfg, initial, lastRes, transfers, slept, gateVars, codecVars, payVars, helperVars, builderVars, concVars, facVars, fetchVars, composeVars>>

\* a fetch carrying the payment header settles: lines 186-205
PaidSettles ==
  /\ cpc = "awaitPaid"
  /\ \E f \in ClientFetches :
       LET d == doFetch(f, cfg.timeoutMs)
           r == d.response
       IN
       /\ lastRes' = f
       /\ IF d.throws
          THEN Throw(d.error) /\ UNCHANGED slept
          ELSE IF Ok(r.status)
          THEN Return(TRUE, Undefined, r.status, r.body.data, TRUE) /\ UNCHANGED slept
          ELSE IF r.status = 402
          THEN /\ Return(FALSE, "Payment not accepted by server", 402, Undefined, FALSE)
               /\ UNCHANGED slept
          ELSE IF attempt < cfg.maxRetries /\ r.status >= 500
          THEN /\ slept' = slept + Backoff(attempt)
               /\ cpc' = "sleeping"
               /\ UNCHANGED outcome
          ELSE /\ Return(FALSE, "HTTP " \o ToString(r.status) \o " after payment",
                         r.status, Undefined, FALSE)
               /\ UNCHANGED slept
  /\ UNCHANGED <<cfg, initial, payResult, attempt, fetches, sentHeaders, transfers, gateVars, codecVars, payVars, helperVars, builderVars, concVars, facVars, fetchVars, composeVars>>

\* a retry that pays again before it fetches
SleepEndsPayingAgain ==
  /\ cpc = "sleeping"
  /\ attempt' = attempt + 1
  /\ transfers' = transfers + 1
  /\ IF attempt + 1 <= cfg.maxRetries
     THEN /\ fetches' = fetches + 1
          /\ sentHeaders' = Append(sentHeaders, payResult.paymentHeader)
          /\ cpc' = "awaitPaid"
          /\ UNCHANGED outcome
     ELSE /\ Return(FALSE, "Unexpected error", 500, Undefined, FALSE)
          /\ UNCHANGED <<fetches, sentHeaders>>
  /\ UNCHANGED <<cfg, initial, payResult, lastRes, slept, gateVars, codecVars, payVars, helperVars, builderVars, concVars, facVars, fetchVars, composeVars>>

\* sleep() is over: continue, attempt++, and the next paid fetch
SleepEnds ==
  /\ cpc = "sleeping"
  /\ attempt' = attempt + 1
  /\ IF attempt + 1 <= cfg.maxRetries
     THEN /\ fetches' = fetches + 1
          /\ sentHeaders' = Append(sentHeaders, payResult.paymentHeader)
          /\ cpc' = "awaitPaid"
          /\ UNCHANGED outcome
     ELSE /\ Return(FALSE, "Unexpected error", 500, Undefined, FALSE)
          /\ UNCHANGED <<fetches, sentHeaders>>
  /\ UNCHANGED <<cfg, initial, payResult, lastRes, transfers, slept, gateVars, codecVars, payVars, helperVars, builderVars, concVars, facVars, fetchVars, composeVars>>

ClientInit ==
  /\ cpc = "idle"
  /\ cfg = NoClientConfig
  /\ initial = NoClientFetch
  /\ payResult = NoPayResult
  /\ attempt = 0
  /\ lastRes = NoClientFetch
  /\ fetches = 0
  /\ sentHeaders = <<>>
  /\ transfers = 0
  /\ slept = 0
  /\ outcome = Pending

ClientStep ==
  \/ RequestCall
  \/ InitialSettles
  \/ TransferSettles
  \/ PaidSettles
  \/ SleepEnds

(***************************************************************************)
(* The proof codec on its own: encodePaymentHeader and decodePaymentHeader *)
(***************************************************************************)

\* the longest JSON text whose base64 form fits the header cap
MaxJSONBytes == (MAX_PAYMENT_HEADER_BYTES \div 4) * 3

\* signatures that bring validProof() to exactly the cap, and just over it
AtCapSignature ==
  Repeat("s", MaxJSONBytes - (Len(ProofJSON(validProof)) - Len("abc123sig")))
OverCapSignature == AtCapSignature \o "s"

ProofSignatures == {"abc123sig", "", AtCapSignature, OverCapSignature, HugeString}

PaymentProofs ==
  {PaymentProof(v, sch, "solana:mainnet", sig, hidden, "/api/data",
                "merchant_wallet", from) :
     v \in {1, 2}, sch \in {"shadowwire", "stripe", ""},
     sig \in ProofSignatures, hidden \in BOOLEAN,
     from \in {Undefined, "sender_wallet"}}

NoProof ==
  PaymentProof(0, Undefined, Undefined, Undefined, FALSE, Undefined, Undefined,
               Undefined)

\* encodePaymentHeader(proof) is called
CodecEncode ==
  /\ kpc = "idle"
  /\ \E p \in PaymentProofs :
       /\ codecProof' = p
       /\ codecHeader' = encodePaymentHeader(p)
  /\ kpc' = "encoded"
  /\ UNCHANGED <<codecOut, gateVars, clientVars, payVars, helperVars, builderVars, concVars, facVars, fetchVars, composeVars>>

\* a header string arrives that this codec did not produce
CodecReceive ==
  /\ kpc = "idle"
  /\ \E h \in HeaderStrings \cup {EmptyHeader} : codecHeader' = h
  /\ kpc' = "received"
  /\ UNCHANGED <<codecProof, codecOut, gateVars, clientVars, payVars,
                 helperVars, builderVars, concVars, facVars, fetchVars, composeVars>>

\* decodePaymentHeader(header) is called and returns
CodecDecode ==
  /\ kpc \in {"encoded", "received"}
  /\ codecOut' = decodePaymentHeader(codecHeader)
  /\ kpc' = IF kpc = "encoded" THEN "roundTrip" ELSE "decoded"
  /\ UNCHANGED <<codecProof, codecHeader, gateVars, clientVars, payVars,
                 helperVars, builderVars, concVars, facVars, fetchVars, composeVars>>

CodecInit ==
  /\ kpc = "idle"
  /\ codecProof = NoProof
  /\ codecHeader = NoHeader
  /\ codecOut = NullProof

CodecStep ==
  \/ CodecEncode
  \/ CodecReceive
  \/ CodecDecode

(***************************************************************************)
(* X402Client.pay() called on its own                                      *)
(***************************************************************************)

\* the senderWallet of the tests' X402Client
SenderWallet == "sender_wallet"

PayAmounts ==
  {<<"1", "0", "0", "0", "0">>, <<"0">>, <<"-", "5">>, <<"a", "b", "c">>, <<>>,
   <<"1", "2", "a", "b", "c">>, <<"1", ".", "5">>}

PayRequirements ==
  {[Offer(sch, "solana:mainnet", amt) EXCEPT !.resource = rsrc] :
     sch \in Schemes, amt \in PayAmounts, rsrc \in {"/api/data", HugeString}}

\* client.transfer as pay() may meet it: the signature of a successful
\* transfer is whatever the relayer's answer holds
PayTransferOutcomes ==
  TransferOutcomes
  \cup [kind : {"returns"}, message : {Undefined}, success : {TRUE},
        tx_signature : {"", Undefined}, amount_hidden : BOOLEAN]

\* new X402InvalidSchemeError(scheme).message
X402InvalidSchemeErrorMessage(scheme) ==
  "Unsupported x402 payment scheme: " \o scheme

\* where pay() is once client.transfer has thrown, without the try block
PayAfterTransferUncaught(t) ==
  IF t.kind = "throws" THEN "threw" ELSE "returned"

\* where pay() is once client.transfer has settled: the catch of lines
\* 244-247 turns a throw into a returned result
PayAfterTransfer(t) == "returned"

\* pay(requirement) is called: lines 213-219 up to the await
PayCall ==
  /\ ppc = "idle"
  /\ \E r \in PayRequirements :
       LET amount == parseAmount(r.amount) IN
       /\ payReq' = r
       /\ IF ~isShadowwire(r.scheme)
          THEN /\ payOut' = [NoPayResult EXCEPT
                               !.error = X402InvalidSchemeErrorMessage(r.scheme),
                               !.requirement = r]
               /\ payTrace' = <<"isShadowwire">>
               /\ ppc' = "returned"
               /\ UNCHANGED <<payAmount, payCalls>>
          ELSE IF amount <= 0
          THEN /\ payOut' = [NoPayResult EXCEPT
                               !.error = "Invalid payment amount",
                               !.requirement = r]
               /\ payTrace' = <<"isShadowwire", "parseAmount">>
               /\ payAmount' = amount
               /\ ppc' = "returned"
               /\ UNCHANGED payCalls
          ELSE /\ payAmount' = amount
               /\ payCalls' = payCalls + 1
               /\ payTrace' = <<"isShadowwire", "parseAmount", "transfer">>
               /\ ppc' = "awaitTransfer"
               /\ UNCHANGED payOut
  /\ UNCHANGED <<payTransfer, gateVars, clientVars, codecVars, helperVars,
                 builderVars, concVars, facVars, fetchVars, composeVars>>

\* client.transfer settles: lines 228-247
PayTransferSettles ==
  /\ ppc = "awaitTransfer"
  /\ \E t \in PayTransferOutcomes :
       /\ payTransfer' = t
       /\ payOut' = PayResultOf(t, payReq, SenderWallet)
       /\ ppc' = PayAfterTransfer(t)
  /\ UNCHANGED <<payReq, payAmount, payCalls, payTrace, gateVars, clientVars,
                 codecVars, helperVars, builderVars, concVars, facVars, fetchVars, composeVars>>

PayInit ==
  /\ ppc = "idle"
  /\ payReq = NoOffer
  /\ payAmount = 0
  /\ payCalls = 0
  /\ payTransfer = NoTransfer
  /\ payOut = NoPayResult
  /\ payTrace = <<>>

PayStep ==
  \/ PayCall
  \/ PayTransferSettles

(***************************************************************************)
(* The static helpers X402Client.parseRequirements and X402Client.is402    *)
(***************************************************************************)

\* A body as parseRequirements sees it: kind is what typeof and !body tell
\* apart; acceptsKind says whether obj.accepts is missing, an array, or
\* something else; x402Version 0 stands for a missing version
NonObjectBody(k) ==
  [kind |-> k, x402Version |-> 0, acceptsKind |-> "missing", accepts |-> <<>>]

ObjectBody(v, ak, offers) ==
  [kind |-> "object", x402Version |-> v, acceptsKind |-> ak, accepts |-> offers]

\* the {} of the tests
EmptyObjectBody == ObjectBody(0, "missing", <<>>)

ParseInputs ==
  {NonObjectBody(k) : k \in {"null", "undefined", "string", "number"}}
  \cup {ObjectBody(v, "missing", <<>>) : v \in {0, 1, 2}}
  \cup {ObjectBody(v, "string", <<>>) : v \in {0, 1, 2}}
  \cup {ObjectBody(v, "array", offers) : v \in {0, 1, 2}, offers \in AcceptsLists}

HelperStatuses == {200, 402, 404, 500}

NotAChallenge == [isNull |-> TRUE, value |-> NonObjectBody("null")]

\* parseRequirements (lines 259-264)
parseRequirements(body) ==
  IF body.kind # "object" THEN NotAChallenge
  ELSE IF body.acceptsKind # "array" THEN NotAChallenge
  ELSE [isNull |-> FALSE, value |-> body]

\* is402 without the status test
is402AnyStatus(status, body) == ~parseRequirements(body).isNull

\* is402 (lines 267-269)
is402(status, body) == status = 402 /\ ~parseRequirements(body).isNull

\* X402Client.parseRequirements(body) is called
HelperParse ==
  /\ hpc = "idle"
  /\ \E b \in ParseInputs :
       /\ helperBody' = b
       /\ helperParsed' = parseRequirements(b)
  /\ hpc' = "parsed"
  /\ UNCHANGED <<helperStatus, helperIs402, gateVars, clientVars, codecVars,
                 payVars, builderVars, concVars, facVars, fetchVars, composeVars>>

\* X402Client.is402(status, body) is called
HelperIs402 ==
  /\ hpc = "idle"
  /\ \E s \in HelperStatuses, b \in ParseInputs :
       /\ helperStatus' = s
       /\ helperBody' = b
       /\ helperParsed' = parseRequirements(b)
       /\ helperIs402' = is402(s, b)
  /\ hpc' = "is402"
  /\ UNCHANGED <<gateVars, clientVars, codecVars, payVars, builderVars, concVars, facVars, fetchVars, composeVars>>

HelperInit ==
  /\ hpc = "idle"
  /\ helperStatus = 0
  /\ helperBody = NonObjectBody("undefined")
  /\ helperParsed = NotAChallenge
  /\ helperIs402 = FALSE

HelperStep ==
  \/ HelperParse
  \/ HelperIs402

(***************************************************************************)
(* createPaymentRequired called twice on one configuration object          *)
(***************************************************************************)

\* config.amount in units of 10^-7: 0.01, 0, -0.01, 0.0000005, 0.0000015
BuilderAmounts == {100000, 0, -100000, 5, 15}

BuilderConfigs ==
  [payTo : {"merchant_wallet"}, amountE7 : BuilderAmounts,
   asset : {"USDC", Undefined},
   facilitatorUrl : {"https://facilitator.test", Undefined},
   apiKey : {"test-key"}, additionalSchemes : {<<>>, <<LightningOffer>>},
   onPayment : {"none"}]

\* the configuration object after a call that pushes its offer onto
\* config.additionalSchemes
ConfigAfterBuildPushed(rsrc, cf) ==
  [cf EXCEPT !.additionalSchemes = Append(@, ShadowwireRequirement(rsrc, cf))]

\* the configuration object after createPaymentRequired(rsrc, cf): the
\* function reads config and writes only its own array accepts
ConfigAfterBuild(rsrc, cf) == cf

\* createPaymentRequired(resource, config) is called
BuilderCall ==
  /\ bpc \in {"idle", "once"}
  /\ IF bpc = "idle"
     THEN \E cf \in BuilderConfigs, rsrc \in Paths :
            /\ builderGiven' = cf
            /\ builderResource' = rsrc
            /\ builderDocs' = <<createPaymentRequired(rsrc, cf)>>
            /\ builderConfig' = ConfigAfterBuild(rsrc, cf)
     ELSE /\ builderDocs' =
               Append(builderDocs,
                      createPaymentRequired(builderResource, builderConfig))
          /\ builderConfig' = ConfigAfterBuild(builderResource, builderConfig)
          /\ UNCHANGED <<builderGiven, builderResource>>
  /\ bpc' = IF bpc = "idle" THEN "once" ELSE "twice"
  /\ UNCHANGED <<gateVars, clientVars, codecVars, payVars, helperVars, concVars, facVars, fetchVars, composeVars>>

BuilderInit ==
  /\ bpc = "idle"
  /\ builderGiven = NoConfig
  /\ builderConfig = NoConfig
  /\ builderResource = Undefined
  /\ builderDocs = <<>>

BuilderStep == BuilderCall

(***************************************************************************)
(* Two calls in flight at once.  JavaScript runs one call until its next   *)
(* await, so an action is the code between two awaits of one call.  The    *)
(* const and let declarations of a call live in its own frame; config of   *)
(* the middleware closure and the fields of the X402Client instance are    *)
(* the one object every call reads.                                        *)
(***************************************************************************)

Calls == {1, 2}

\* the frame that holds the locals of call i
FrameOfInstance(i) == 1

\* the frame that holds the locals of call i: every invocation of an async
\* function has its own
Frame(i) == i

NoFrame == [kind |-> "none"]

\* the tests' middlewareConfig()
TestConfig ==
  [payTo |-> "merchant_wallet", amountE7 |-> 100000, asset |-> "USDC",
   facilitatorUrl |-> "https://facilitator.test", apiKey |-> "test-key",
   additionalSchemes |-> <<>>, onPayment |-> "none"]

OtherHeader ==
  [present |-> TRUE, bytes |-> SmallHeaderBytes,
   text |-> ObjectText(2, "shadowwire", TRUE, "abc123sig", "/api/other")]

HugeHeader ==
  [present |-> TRUE, bytes |-> HugeHeaderBytes, text |-> NonObjectText("garbage")]

ConcurrentRequests ==
  [path : Paths, header : {NoHeader, ValidHeader, OtherHeader, HugeHeader}]

FacilitatorAnswer(status, flag, id, err) ==
  [kind |-> "http", message |-> Undefined, status |-> status, json |-> TRUE,
   flag |-> flag, id |-> id, error |-> err]

ConcurrentAnswers ==
  {FacilitatorAnswer(200, TRUE, "sender_wallet", Undefined),
   FacilitatorAnswer(200, TRUE, "other_wallet", Undefined),
   FacilitatorAnswer(200, FALSE, Undefined, "Invalid signature"),
   [kind |-> "reject", message |-> "ECONNREFUSED", status |-> 0,
    json |-> FALSE, flag |-> FALSE, id |-> Undefined, error |-> Undefined]}

\* a call issued to a collaborator, with what it carries
Sent(to, carried) == [to |-> to, carried |-> carried]

\* what a caller of the middleware sees: the response sent, whether next()
\* was called, and req.x402
GateOutcome(status, body, nexted, x402) ==
  [status |-> status, body |-> body, next |-> nexted, x402 |-> x402]

NoGateCall ==
  [pc |-> "idle", kind |-> "gate", together |-> FALSE, input |-> [path |-> Undefined, header |-> NoHeader],
   verifyResp |-> NoFetch, settleResp |-> NoFetch,
   outcome |-> GateOutcome(0, NoBody, FALSE, NoX402), sent |-> <<>>]

NoCall == [pc |-> "idle", kind |-> "none", together |-> FALSE]

InFlight(j) == calls[j].pc \notin {"idle", "done"}

\* another call of the same kind is between two of its awaits
OthersInFlight(i, kind) ==
  \E j \in Calls \ {i} : InFlight(j) /\ calls[j].kind = kind

\* call i starts with record rec; it and the calls of its kind in flight are
\* marked as having run together
Entered(i, rec) ==
  [j \in Calls |->
     IF j = i THEN [rec EXCEPT !.together = OthersInFlight(i, rec.kind)]
     ELSE IF InFlight(j) /\ calls[j].kind = rec.kind
     THEN [calls[j] EXCEPT !.together = TRUE]
     ELSE calls[j]]

\* call i of the middleware: lines 466-513, up to the await in verifyPayment
ConcGateEnter(i) ==
  /\ calls[i].pc \in {"idle", "done"}
  /\ overlapped' = IF OthersInFlight(i, "gate") THEN overlapped \cup {"gate"}
                   ELSE overlapped
  /\ \E r \in ConcurrentRequests :
       LET p == decodePaymentHeader(r.header)
           challenge == createPaymentRequired(r.path, shared.config)
           entered == Entered(i, [NoGateCall EXCEPT !.input = r])
           reject(status, body) ==
             calls' = [entered EXCEPT
                         ![i].pc = "done",
                         ![i].outcome = GateOutcome(status, body, FALSE, NoX402)]
       IN
       /\ frames' = [frames EXCEPT ![Frame(i)] =
                       [kind |-> "gate", resource |-> r.path,
                        paymentHeader |-> r.header, proof |-> p,
                        verifyResult |-> NoVerifyResult]]
       /\ IF HeaderFalsy(r.header) THEN reject(402, challenge)
          ELSE IF HeaderTooLarge(r.header)
          THEN reject(400, ErrorBody(HeaderTooLargeMessage(byteLength(r.header))))
          ELSE IF ProofRejected(p) THEN reject(402, challenge)
          ELSE IF ResourceMismatch(p, r.path) THEN reject(402, challenge)
          ELSE calls' = [entered EXCEPT
                           ![i].pc = "awaitVerify",
                           ![i].sent = <<Sent("verify", [proof |-> p,
                                                         resource |-> r.path])>>]
  /\ UNCHANGED <<shared, gateVars, clientVars, codecVars, payVars,
                 helperVars, builderVars, facVars, fetchVars, composeVars>>

\* the /verify fetch of call i settles: lines 515-526, up to the await in
\* settlePayment
ConcGateVerified(i) ==
  /\ calls[i].pc = "awaitVerify"
  /\ \E r \in ConcurrentAnswers :
       LET f == frames[Frame(i)]
           vr == VerifyResultOf(r)
           answered == [calls EXCEPT ![i].verifyResp = r]
       IN
       /\ frames' = [frames EXCEPT ![Frame(i)].verifyResult = vr]
       /\ IF VerifyFailed(vr)
          THEN calls' = [answered EXCEPT
                           ![i].pc = "done",
                           ![i].outcome =
                             GateOutcome(402,
                               [createPaymentRequired(f.resource, shared.config)
                                  EXCEPT !.verifyError = vr.error],
                               FALSE, NoX402)]
          ELSE calls' = [answered EXCEPT
                           ![i].pc = "awaitSettle",
                           ![i].sent = Append(@, Sent("settle",
                                         [proof |-> f.proof,
                                          resource |-> f.resource]))]
  /\ UNCHANGED <<shared, overlapped, gateVars, clientVars, codecVars,
                 payVars, helperVars, builderVars, facVars, fetchVars, composeVars>>

\* the /settle fetch of call i settles: lines 527-554
ConcGateSettled(i) ==
  /\ calls[i].pc = "awaitSettle"
  /\ \E r \in ConcurrentAnswers :
       LET f == frames[Frame(i)]
           sr == SettleResultOf(r)
           answered == [calls EXCEPT ![i].settleResp = r]
       IN
       IF SettleFailed(sr)
       THEN calls' = [answered EXCEPT
                        ![i].pc = "done",
                        ![i].outcome =
                          GateOutcome(402,
                            [createPaymentRequired(f.resource, shared.config)
                               EXCEPT !.settleError = sr.error],
                            FALSE, NoX402)]
       ELSE calls' = [answered EXCEPT
                        ![i].pc = "done",
                        ![i].outcome =
                          GateOutcome(0, NoBody, TRUE,
                            [attached |-> TRUE, payer |-> f.verifyResult.payer,
                             txHash |-> sr.txHash, scheme |-> "shadowwire"])]
  /\ UNCHANGED <<shared, frames, overlapped, gateVars, clientVars,
                 codecVars, payVars, helperVars, builderVars, facVars, fetchVars, composeVars>>

\* the X402Client of the tests: maxRetries is the constructor's default
TestClient ==
  [maxRetries |-> 1, timeoutMs |-> DEFAULT_TIMEOUT_MS,
   senderWallet |-> "sender_wallet"]

HttpAnswer(status, body) ==
  [kind |-> "http", name |-> Undefined, message |-> Undefined,
   status |-> status, body |-> body]

PremiumBody ==
  [json |-> TRUE, data |-> "premium", x402Version |-> 0,
   hasAccepts |-> FALSE, accepts |-> <<>>]

ChallengeBody(offers) ==
  [json |-> TRUE, data |-> "challenge", x402Version |-> 2,
   hasAccepts |-> TRUE, accepts |-> offers]

ConcurrentFirst ==
  {HttpAnswer(200, PremiumBody), HttpAnswer(500, NoBodyRead),
   HttpAnswer(402, ChallengeBody(<<BaseRequirement>>)),
   HttpAnswer(402, ChallengeBody(<<StripeOffer, ShadowOffer>>))}

ConcurrentPaid ==
  {HttpAnswer(200, PremiumBody), HttpAnswer(500, NoBodyRead),
   HttpAnswer(402, ChallengeBody(<<BaseRequirement>>))}

TransferAnswer(ok, sig, hidden) ==
  [kind |-> "returns", message |-> Undefined, success |-> ok,
   tx_signature |-> sig, amount_hidden |-> hidden]

ConcurrentTransfers ==
  {TransferAnswer(TRUE, "sig123", TRUE), TransferAnswer(TRUE, "sig456", FALSE),
   TransferAnswer(FALSE, Undefined, FALSE)}

NoPayment == [made |-> FALSE, transfer |-> NoTransfer, requirement |-> NoOffer]

\* what a caller of request() sees: the X402RequestResult
RequestOutcome(ok, err, code, data, pay) ==
  [success |-> ok, error |-> err, statusCode |-> code, data |-> data,
   payment |-> pay]

NoRequestCall ==
  [pc |-> "idle", kind |-> "client", together |-> FALSE, first |-> NoClientFetch, transfer |-> NoTransfer,
   paid |-> <<>>,
   outcome |-> RequestOutcome(FALSE, Undefined, 0, Undefined, NoPayment),
   sent |-> <<>>, slept |-> 0]

\* call i of request(): line 160 up to the await inside doFetch
ConcRequestCall(i) ==
  /\ calls[i].pc \in {"idle", "done"}
  /\ overlapped' = IF OthersInFlight(i, "client")
                   THEN overlapped \cup {"client"}
                   ELSE overlapped
  /\ frames' = [frames EXCEPT ![Frame(i)] =
                  [kind |-> "client", requirement |-> NoOffer,
                   payResult |-> NoPayResult, attempt |-> 0]]
  /\ calls' = Entered(i, [NoRequestCall EXCEPT
                               !.pc = "awaitInitial",
                               !.sent = <<Sent("fetch", NoHeader)>>])
  /\ UNCHANGED <<shared, gateVars, clientVars, codecVars, payVars,
                 helperVars, builderVars, facVars, fetchVars, composeVars>>

\* the first fetch of call i settles: lines 160-182 and pay() up to its await
ConcInitialSettles(i) ==
  /\ calls[i].pc = "awaitInitial"
  /\ \E r \in ConcurrentFirst :
       LET found == findCompatibleRequirement(r.body.accepts)
           answered == [calls EXCEPT ![i].first = r]
           return(err, code, data, ok) ==
             calls' = [answered EXCEPT
                         ![i].pc = "done",
                         ![i].outcome =
                           RequestOutcome(ok, err, code, data, NoPayment)]
       IN
       IF r.status # 402
       THEN /\ IF ~Ok(r.status)
               THEN return("HTTP " \o ToString(r.status) \o ": "
                           \o StatusText(r.status), r.status, Undefined, FALSE)
               ELSE return(Undefined, r.status, r.body.data, TRUE)
            /\ UNCHANGED frames
       ELSE IF AcceptsLength(r.body) = 0
       THEN /\ return("No accepted payment methods in 402 response", 402,
                      Undefined, FALSE)
            /\ UNCHANGED frames
       ELSE IF ~found.found
       THEN /\ return("No compatible payment option (need ShadowWire)", 402,
                      Undefined, FALSE)
            /\ UNCHANGED frames
       ELSE /\ frames' = [frames EXCEPT
                            ![Frame(i)].requirement = found.requirement]
            /\ IF parseAmount(found.requirement.amount) <= 0
               THEN return("Invalid payment amount", 402, Undefined, FALSE)
               ELSE calls' = [answered EXCEPT
                                ![i].pc = "awaitTransfer",
                                ![i].sent = Append(@, Sent("transfer",
                                  [sender |-> shared.instance.senderWallet,
                                   recipient |-> found.requirement.payTo,
                                   amount |-> parseAmount(found.requirement.amount)]))]
  /\ UNCHANGED <<shared, overlapped, gateVars, clientVars, codecVars,
                 payVars, helperVars, builderVars, facVars, fetchVars, composeVars>>

\* client.transfer of call i settles: the rest of pay(), lines 181-189
ConcTransferSettles(i) ==
  /\ calls[i].pc = "awaitTransfer"
  /\ \E t \in ConcurrentTransfers :
       LET f == frames[Frame(i)]
           pr == PayResultOf(t, f.requirement, shared.instance.senderWallet)
           answered == [calls EXCEPT ![i].transfer = t]
       IN
       /\ frames' = [frames EXCEPT ![Frame(i)].payResult = pr,
                                   ![Frame(i)].attempt = 0]
       /\ IF ~pr.success \/ ~pr.hasTransfer \/ HeaderFalsy(pr.paymentHeader)
          THEN calls' = [answered EXCEPT
                           ![i].pc = "done",
                           ![i].outcome =
                             RequestOutcome(FALSE,
                               IF Truthy(pr.error) THEN pr.error
                               ELSE "Payment failed",
                               402, Undefined, NoPayment)]
          ELSE calls' = [answered EXCEPT
                           ![i].pc = "awaitPaid",
                           ![i].sent = Append(@, Sent("fetch", pr.paymentHeader))]
  /\ UNCHANGED <<shared, overlapped, gateVars, clientVars, codecVars,
                 payVars, helperVars, builderVars, facVars, fetchVars, composeVars>>

\* a paid fetch of call i settles: lines 186-205
ConcPaidSettles(i) ==
  /\ calls[i].pc = "awaitPaid"
  /\ \E r \in ConcurrentPaid :
       LET f == frames[Frame(i)]
           answered == [calls EXCEPT ![i].paid = Append(@, r)]
           return(ok, err, code, data, pay) ==
             calls' = [answered EXCEPT
                         ![i].pc = "done",
                         ![i].outcome = RequestOutcome(ok, err, code, data, pay)]
       IN
       IF Ok(r.status)
       THEN return(TRUE, Undefined, r.status, r.body.data,
                   [made |-> TRUE, transfer |-> f.payResult.transfer,
                    requirement |-> f.requirement])
       ELSE IF r.status = 402
       THEN return(FALSE, "Payment not accepted by server", 402, Undefined,
                   NoPayment)
       ELSE IF f.attempt < shared.instance.maxRetries /\ r.status >= 500
       THEN calls' = [answered EXCEPT ![i].pc = "sleeping",
                                      ![i].slept = @ + Backoff(f.attempt)]
       ELSE return(FALSE, "HTTP " \o ToString(r.status) \o " after payment",
                   r.status, Undefined, NoPayment)
  /\ UNCHANGED <<shared, frames, overlapped, gateVars, clientVars,
                 codecVars, payVars, helperVars, builderVars, facVars, fetchVars, composeVars>>

\* sleep() of call i is over: continue, attempt++, and the next paid fetch
ConcSleepEnds(i) ==
  /\ calls[i].pc = "sleeping"
  /\ frames' = [frames EXCEPT ![Frame(i)].attempt = @ + 1]
  /\ IF frames[Frame(i)].attempt + 1 <= shared.instance.maxRetries
     THEN calls' = [calls EXCEPT
                      ![i].pc = "awaitPaid",
                      ![i].sent = Append(@, Sent("fetch",
                                    frames[Frame(i)].payResult.paymentHeader))]
     ELSE calls' = [calls EXCEPT
                      ![i].pc = "done",
                      ![i].outcome =
                        RequestOutcome(FALSE, "Unexpected error", 500,
                                       Undefined, NoPayment)]
  /\ UNCHANGED <<shared, overlapped, gateVars, clientVars, codecVars,
                 payVars, helperVars, builderVars, facVars, fetchVars, composeVars>>

ConcInit ==
  /\ shared = [config |-> TestConfig, instance |-> TestClient]
  /\ frames = [f \in Calls |-> NoFrame]
  /\ calls = [i \in Calls |-> NoCall]
  /\ overlapped = {}

ConcStep ==
  \E i \in Calls :
    \/ ConcGateEnter(i)
    \/ ConcGateVerified(i)
    \/ ConcGateSettled(i)
    \/ ConcRequestCall(i)
    \/ ConcInitialSettles(i)
    \/ ConcTransferSettles(i)
    \/ ConcPaidSettles(i)
    \/ ConcSleepEnds(i)

(***************************************************************************)
(* One call running alone: the middleware (lines 464-556) and request()    *)
(* (lines 154-209) as straight-line code, given the call's input and the   *)
(* answers to the calls it issues.                                         *)
(***************************************************************************)

Alone(out, issued, ms) ==
  [outcome |-> out, sent |-> issued, slept |-> ms]

\* the middleware on request r with config cf: vresp answers its /verify call
\* and sresp its /settle call, when it issues them
GateAlone(r, vresp, sresp, cf) ==
  LET p == decodePaymentHeader(r.header)
      challenge == createPaymentRequired(r.path, cf)
      vr == VerifyResultOf(vresp)
      sr == SettleResultOf(sresp)
      verify == Sent("verify", [proof |-> p, resource |-> r.path])
      settle == Sent("settle", [proof |-> p, resource |-> r.path])
  IN
  IF HeaderFalsy(r.header)
  THEN Alone(GateOutcome(402, challenge, FALSE, NoX402), <<>>, 0)
  ELSE IF HeaderTooLarge(r.header)
  THEN Alone(GateOutcome(400,
               ErrorBody(HeaderTooLargeMessage(byteLength(r.header))),
               FALSE, NoX402), <<>>, 0)
  ELSE IF ProofRejected(p) \/ ResourceMismatch(p, r.path)
  THEN Alone(GateOutcome(402, challenge, FALSE, NoX402), <<>>, 0)
  ELSE IF VerifyFailed(vr)
  THEN Alone(GateOutcome(402, [challenge EXCEPT !.verifyError = vr.error],
                         FALSE, NoX402), <<verify>>, 0)
  ELSE IF SettleFailed(sr)
  THEN Alone(GateOutcome(402, [challenge EXCEPT !.settleError = sr.error],
                         FALSE, NoX402), <<verify, settle>>, 0)
  ELSE Alone(GateOutcome(0, NoBody, TRUE,
                         [attached |-> TRUE, payer |-> vr.payer,
                          txHash |-> sr.txHash, scheme |-> "shadowwire"]),
             <<verify, settle>>, 0)

\* the loop of lines 185-206 from its k-th pass on: paid[k + 1] answers the
\* fetch of that pass
RECURSIVE PaidAlone(_, _, _, _, _, _)
PaidAlone(paid, k, inst, pr, issued, ms) ==
  LET r == paid[k + 1]
      now == Append(issued, Sent("fetch", pr.paymentHeader))
  IN
  IF k > inst.maxRetries
  THEN Alone(RequestOutcome(FALSE, "Unexpected error", 500, Undefined,
                            NoPayment), issued, ms)
  ELSE IF Ok(r.status)
  THEN Alone(RequestOutcome(TRUE, Undefined, r.status, r.body.data,
                            [made |-> TRUE, transfer |-> pr.transfer,
                             requirement |-> pr.requirement]), now, ms)
  ELSE IF r.status = 402
  THEN Alone(RequestOutcome(FALSE, "Payment not accepted by server", 402,
                            Undefined, NoPayment), now, ms)
  ELSE IF k < inst.maxRetries /\ r.status >= 500
  THEN PaidAlone(paid, k + 1, inst, pr, now, ms + Backoff(k))
  ELSE Alone(RequestOutcome(FALSE,
                            "HTTP " \o ToString(r.status) \o " after payment",
                            r.status, Undefined, NoPayment), now, ms)

\* request() on instance inst: first answers its first fetch, t its transfer
\* and paid, in order, its fetches with the payment header
RequestAlone(first, t, paid, inst) ==
  LET found == findCompatibleRequirement(first.body.accepts)
      pr == PayResultOf(t, found.requirement, inst.senderWallet)
      fetch == Sent("fetch", NoHeader)
      transfer ==
        Sent("transfer",
             [sender |-> inst.senderWallet,
              recipient |-> found.requirement.payTo,
              amount |-> parseAmount(found.requirement.amount)])
      fail(err, code, issued) ==
        Alone(RequestOutcome(FALSE, err, code, Undefined, NoPayment), issued, 0)
  IN
  IF first.status # 402
  THEN IF ~Ok(first.status)
       THEN fail("HTTP " \o ToString(first.status) \o ": "
                 \o StatusText(first.status), first.status, <<fetch>>)
       ELSE Alone(RequestOutcome(TRUE, Undefined, first.status,
                                 first.body.data, NoPayment), <<fetch>>, 0)
  ELSE IF AcceptsLength(first.body) = 0
  THEN fail("No accepted payment methods in 402 response", 402, <<fetch>>)
  ELSE IF ~found.found
  THEN fail("No compatible payment option (need ShadowWire)", 402, <<fetch>>)
  ELSE IF parseAmount(found.requirement.amount) <= 0
  THEN fail("Invalid payment amount", 402, <<fetch>>)
  ELSE IF ~pr.success \/ ~pr.hasTransfer \/ HeaderFalsy(pr.paymentHeader)
  THEN fail(IF Truthy(pr.error) THEN pr.error ELSE "Payment failed", 402,
            <<fetch, transfer>>)
  ELSE PaidAlone(paid, 0, inst, pr, <<fetch, transfer>>, 0)

(***************************************************************************)
(* verifyPayment and settlePayment called on their own: one call           *)
(***************************************************************************)

\* header strings of the size cap's two sides, and the tests' oversized one
AtCapHeader ==
  [present |-> TRUE, bytes |-> MAX_PAYMENT_HEADER_BYTES, text |-> ValidProofText]

OverCapHeader ==
  [present |-> TRUE, bytes |-> MAX_PAYMENT_HEADER_BYTES + 1,
   text |-> ValidProofText]

FacilitatorHeaders ==
  {ValidHeader, AtCapHeader, OverCapHeader, HugeHeader, EmptyHeader}

FacilitatorCalls ==
  [op : {"verify", "settle"}, paymentHeader : FacilitatorHeaders,
   requirement : {BaseRequirement}, apiKey : {Undefined, "test-key"}]

NoDirectCall ==
  [op |-> "none", paymentHeader |-> NoHeader, requirement |-> NoOffer,
   apiKey |-> Undefined]

\* verifyPayment's size test that also turns away a header at the cap
VerifyOversizedAtCap(h) == byteLength(h) >= MAX_PAYMENT_HEADER_BYTES

\* line 384: byteLength(paymentHeader) > MAX_PAYMENT_HEADER_BYTES
VerifyOversized(h) == byteLength(h) > MAX_PAYMENT_HEADER_BYTES

\* the request handed to timedFetch (lines 387-399 and 430-440)
FacilitatorRequest(c) ==
  [url |-> "/" \o c.op, paymentHeader |-> c.paymentHeader,
   apiKeyHeader |-> IF Truthy(c.apiKey) THEN c.apiKey ELSE Undefined,
   timeoutMs |-> DEFAULT_TIMEOUT_MS]

\* verifyPayment or settlePayment up to its await of timedFetch
FacilitatorCall ==
  /\ fpc = "idle"
  /\ \E c \in FacilitatorCalls :
       /\ facCall' = c
       /\ IF c.op = "verify" /\ VerifyOversized(c.paymentHeader)
          THEN /\ facResult' =
                    [NoVerifyResult EXCEPT !.error =
                       HeaderTooLargeMessage(byteLength(c.paymentHeader))]
               /\ fpc' = "done"
               /\ UNCHANGED facSent
          ELSE /\ facSent' = Append(facSent, FacilitatorRequest(c))
               /\ fpc' = "awaitFetch"
               /\ UNCHANGED facResult
  /\ UNCHANGED <<facResp, gateVars, clientVars, codecVars, payVars,
                 helperVars, builderVars, concVars, fetchVars, composeVars>>

\* a facilitator client that sends its request again when the fetch rejects
FacilitatorFetchSettlesRetrying ==
  /\ fpc = "awaitFetch"
  /\ \E r \in FacilitatorResponses :
       /\ facResp' = r
       /\ IF r.kind = "reject"
          THEN /\ facSent' = Append(facSent, FacilitatorRequest(facCall))
               /\ UNCHANGED <<fpc, facResult>>
          ELSE /\ facResult' = IF facCall.op = "verify" THEN VerifyResultOf(r)
                               ELSE SettleResultOf(r)
               /\ fpc' = "done"
               /\ UNCHANGED facSent
  /\ UNCHANGED <<facCall, gateVars, clientVars, codecVars, payVars,
                 helperVars, builderVars, concVars, fetchVars, composeVars>>

\* globalThis.fetch settles, or the timer of timedFetch aborts it, and the
\* function returns (lines 401-419 and 442-460)
FacilitatorFetchSettles ==
  /\ fpc = "awaitFetch"
  /\ \E r \in FacilitatorResponses :
       /\ facResp' = r
       /\ facResult' = IF facCall.op = "verify" THEN VerifyResultOf(r)
                       ELSE SettleResultOf(r)
  /\ fpc' = "done"
  /\ UNCHANGED <<facCall, facSent, gateVars, clientVars, codecVars, payVars,
                 helperVars, builderVars, concVars, fetchVars, composeVars>>

FacilitatorInit ==
  /\ fpc = "idle"
  /\ facCall = NoDirectCall
  /\ facSent = <<>>
  /\ facResp = NoFetch
  /\ facResult = NoVerifyResult

FacilitatorStep ==
  \/ FacilitatorCall
  \/ FacilitatorFetchSettles

(***************************************************************************)
(* doFetch: one call, with the time that passes while its fetch is pending *)
(***************************************************************************)

\* what globalThis.fetch rejects with once controller.abort() has run
AbortRejection ==
  [kind |-> "reject", name |-> "AbortError",
   message |-> "This operation was aborted", status |-> 0, body |-> NoBodyRead]

\* what globalThis.fetch does on its own: a transport failure or a Response
FetchAnswers ==
  [kind : {"reject"}, name : {"TypeError"},
   message : {"fetch failed", "ECONNREFUSED"}, status : {0},
   body : {NoBodyRead}]
  \cup [kind : {"http"}, name : {Undefined}, message : {Undefined},
        status : {200, 402, 500}, body : {NoBodyRead}]

FetchTimeoutConfigs ==
  {c \in ClientConfigs : c.maxRetries = 0}

NoDoFetch == [throws |-> FALSE, error |-> Undefined, response |-> NoClientFetch]

\* lines 315-318: the timer is armed and the fetch issued
DoFetchCall ==
  /\ dpc = "idle"
  /\ \E c \in FetchTimeoutConfigs : dTimeoutMs' = X402ClientOf(c).timeoutMs
  /\ dTimer' = "armed"
  /\ dpc' = "pending"
  /\ UNCHANGED <<dElapsed, dOut, gateVars, clientVars, codecVars, payVars,
                 helperVars, builderVars, concVars, facVars, composeVars>>

\* a second passes while the fetch is pending and the timer has not run out
DoFetchTick ==
  /\ dpc = "pending"
  /\ dElapsed * 1000 < dTimeoutMs
  /\ dElapsed' = dElapsed + 1
  /\ UNCHANGED <<dpc, dTimeoutMs, dTimer, dOut, gateVars, clientVars,
                 codecVars, payVars, helperVars, builderVars, concVars,
                 facVars, composeVars>>

\* the fetch settles by itself; line 318 or lines 319-323, then clearTimeout
DoFetchSettles ==
  /\ dpc = "pending"
  /\ \E f \in FetchAnswers : dOut' = doFetch(f, dTimeoutMs)
  /\ dTimer' = "cleared"
  /\ dpc' = "done"
  /\ UNCHANGED <<dElapsed, dTimeoutMs, gateVars, clientVars, codecVars,
                 payVars, helperVars, builderVars, concVars, facVars, composeVars>>

\* the timer runs out: controller.abort(), the fetch rejects with an
\* AbortError, lines 319-322
DoFetchTimerFires ==
  /\ dpc = "pending"
  /\ dElapsed * 1000 >= dTimeoutMs
  /\ dOut' = doFetch(AbortRejection, dTimeoutMs)
  /\ dTimer' = "fired"
  /\ dpc' = "done"
  /\ UNCHANGED <<dElapsed, dTimeoutMs, gateVars, clientVars, codecVars,
                 payVars, helperVars, builderVars, concVars, facVars, composeVars>>

DoFetchInit ==
  /\ dpc = "idle"
  /\ dTimeoutMs = 0
  /\ dElapsed = 0
  /\ dTimer = "unset"
  /\ dOut = NoDoFetch

DoFetchStep ==
  \/ DoFetchCall
  \/ DoFetchTick
  \/ DoFetchSettles
  \/ DoFetchTimerFires

(***************************************************************************)
(* A challenge of x402Paywall, X402Client.pay() for its first offer, and   *)
(* the paid request at the same middleware                                 *)
(***************************************************************************)

\* the paths requested: the tests' paths and one longer than the header cap
ComposePaths == Paths \cup {HugeString}

\* the requirement literal of the middleware, lines 491-502
PaywallRequirement(rsrc, cf) ==
  [scheme |-> "shadowwire", network |-> "solana:mainnet",
   amount |-> NumberToString(MicroAmount(cf)),
   asset |-> IF Truthy(cf.asset) THEN cf.asset ELSE "USDC",
   payTo |-> cf.payTo, resource |-> rsrc]

\* the check of the middleware at which a request carrying h stops, lines
\* 469-511; "verify" when it goes on to verifyPayment
PaywallStopsAt(h, rsrc) ==
  IF HeaderFalsy(h) THEN "presence"
  ELSE IF HeaderTooLarge(h) THEN "size"
  ELSE LET decoded == decodePaymentHeader(h) IN
       IF decoded.isNull THEN "decode"
       ELSE IF ~isShadowwire(decoded.value.scheme) THEN "scheme"
       ELSE IF ResourceMismatch(decoded, rsrc) THEN "resource"
       ELSE "verify"

\* client.transfer as pay() may meet it, and a successful transfer whose
\* signature is as long as the header cap allows for validProof(), or longer
ComposeTransferOutcomes ==
  PayTransferOutcomes
  \cup [kind : {"returns"}, message : {Undefined}, success : {TRUE},
        tx_signature : {AtCapSignature, OverCapSignature},
        amount_hidden : {FALSE}]

NoGate == [stoppedAt |-> "none", requirement |-> NoOffer]

\* a request without a payment header reaches the middleware, which answers
\* 402 with createPaymentRequired(resource, config): lines 466-476
ComposeChallenge ==
  /\ xpc = "idle"
  /\ \E cf \in BuilderConfigs, path \in ComposePaths :
       LET r == [path |-> path, url |-> path, headers |-> NoHeaders,
                 x402 |-> NoX402] IN
       /\ HeaderFalsy(PaymentHeaderOf(r))
       /\ xConfig' = cf
       /\ xPath' = path
       /\ xChallenge' = createPaymentRequired(ResourceOf(r), cf)
  /\ xpc' = "challenged"
  /\ UNCHANGED <<xPay, xGate, gateVars, clientVars, codecVars, payVars,
                 helperVars, builderVars, concVars, facVars, fetchVars>>

\* pay(accepts[0]) is called: lines 213-219 up to the await
ComposePayCall ==
  /\ xpc = "challenged"
  /\ LET r == xChallenge.accepts[1] IN
       IF ~isShadowwire(r.scheme)
       THEN /\ xPay' = [NoPayResult EXCEPT
                          !.error = X402InvalidSchemeErrorMessage(r.scheme),
                          !.requirement = r]
            /\ xpc' = "unpaid"
       ELSE IF parseAmount(r.amount) <= 0
       THEN /\ xPay' = [NoPayResult EXCEPT !.error = "Invalid payment amount",
                                           !.requirement = r]
            /\ xpc' = "unpaid"
       ELSE /\ xpc' = "awaitTransfer"
            /\ UNCHANGED xPay
  /\ UNCHANGED <<xConfig, xPath, xChallenge, xGate, gateVars, clientVars,
                 codecVars, payVars, helperVars, builderVars, concVars,
                 facVars, fetchVars>>

\* client.transfer settles and pay() returns: lines 228-247
ComposeTransferSettles ==
  /\ xpc = "awaitTransfer"
  /\ \E t \in ComposeTransferOutcomes :
       LET result == PayResultOf(t, xChallenge.accepts[1], SenderWallet) IN
       /\ xPay' = result
       /\ xpc' = IF result.success THEN "paid" ELSE "unpaid"
  /\ UNCHANGED <<xConfig, xPath, xChallenge, xGate, gateVars, clientVars,
                 codecVars, payVars, helperVars, builderVars, concVars,
                 facVars, fetchVars>>

\* the request for the same path reaches the middleware again, carrying the
\* header pay() returned: lines 466-511 up to the call of verifyPayment
ComposePresent ==
  /\ xpc = "paid"
  /\ LET r == [path |-> xPath, url |-> xPath,
               headers |-> [defined |-> TRUE, lower |-> xPay.paymentHeader,
                            upper |-> NoHeader],
               x402 |-> NoX402] IN
       xGate' = [stoppedAt |-> PaywallStopsAt(PaymentHeaderOf(r), ResourceOf(r)),
                 requirement |-> PaywallRequirement(ResourceOf(r), xConfig)]
  /\ xpc' = "gated"
  /\ UNCHANGED <<xConfig, xPath, xChallenge, xPay, gateVars, clientVars,
                 codecVars, payVars, helperVars, builderVars, concVars,
                 facVars, fetchVars>>

ComposeInit ==
  /\ xpc = "idle"
  /\ xConfig = NoConfig
  /\ xPath = Undefined
  /\ xChallenge = createPaymentRequired(Undefined, NoConfig)
  /\ xPay = NoPayResult
  /\ xGate = NoGate

ComposeStep ==
  \/ ComposeChallenge
  \/ ComposePayCall
  \/ ComposeTransferSettles
  \/ ComposePresent

Init ==
  /\ GateInit /\ ClientInit /\ CodecInit /\ PayInit /\ HelperInit /\ BuilderInit
  /\ ConcInit /\ FacilitatorInit /\ DoFetchInit /\ ComposeInit

SpecGate == Init /\ [][GateStep]_vars

\* the middleware runs on from one statement to the next, and timedFetch
\* ends every facilitator fetch under its timer
SpecGateLive == SpecGate /\ WF_vars(GateStep)

SpecClient == Init /\ [][ClientStep]_vars

\* doFetch aborts its fetch when the timer fires and setTimeout ends every
\* sleep: a paid fetch settles and a sleep ends
SpecClientLive ==
  SpecClient /\ WF_vars(PaidSettles) /\ WF_vars(SleepEnds)

SpecCodec == Init /\ [][CodecStep]_vars

SpecPay == Init /\ [][PayStep]_vars

SpecHelper == Init /\ [][HelperStep]_vars

SpecBuilder == Init /\ [][BuilderStep]_vars

SpecConcurrent == Init /\ [][ConcStep]_vars

SpecFacilitator == Init /\ [][FacilitatorStep]_vars

\* timedFetch aborts its fetch when the timer fires: the fetch settles
SpecFacilitatorLive == SpecFacilitator /\ WF_vars(FacilitatorFetchSettles)

SpecDoFetch == Init /\ [][DoFetchStep]_vars

\* time passes while a fetch is pending, and a timer that has run out fires
SpecDoFetchLive ==
  SpecDoFetch /\ WF_vars(DoFetchTick) /\ WF_vars(DoFetchTimerFires)

SpecCompose == Init /\ [][ComposeStep]_vars

(***************************************************************************)
(* Properties of x402Paywall (checked under SpecGate)                      *)
(***************************************************************************)

Called(e) == \E i \in 1..Len(trace) : trace[i] = e
Count(e) == Cardinality({i \in 1..Len(trace) : trace[i] = e})
Position(e) == CHOOSE i \in 1..Len(trace) : trace[i] = e

\* the request as the client sent it, read off the presented header
HeaderPresented == paymentHeader.present /\ paymentHeader.bytes > 0
WithinCap == paymentHeader.bytes <= 16384
WellFormedProof ==
  /\ paymentHeader.text.kind = "object"
  /\ paymentHeader.text.x402Version = 2
  /\ paymentHeader.text.scheme \notin {Undefined, ""}
  /\ paymentHeader.text.hasPayload
  /\ paymentHeader.text.signature \notin {Undefined, ""}
SupportedScheme == paymentHeader.text.scheme \in {"shadowwire", "shadow"}
NamesResource ==
  paymentHeader.text.hasPayload /\ paymentHeader.text.resource \notin {Undefined, ""}
NamesOtherResource == NamesResource /\ paymentHeader.text.resource # resource

NoFacilitatorCall ==
  /\ ~Called("verifyPayment") /\ ~Called("fetch /verify")
  /\ ~Called("settlePayment") /\ ~Called("fetch /settle")
  /\ inflight = [verify |-> 0, settle |-> 0]

\* the body is a challenge document for the request's resource
ChallengeFor(body) ==
  /\ body.x402Version = 2
  /\ Len(body.accepts) >= 1
  /\ body.accepts[1].scheme = "shadowwire"
  /\ body.accepts[1].resource = resource
  /\ body.error = "Payment Required"

Rejected(code) ==
  /\ res.sent = 1
  /\ res.status = code
  /\ ~Called("next")
  /\ ~req.x402.attached

DecodeCalls == <<"decodePaymentHeader">>
VerifyCalls == <<"verifyPayment", "fetch /verify">>
SettleCalls == <<"settlePayment", "fetch /settle">>

\* the calls of a request that ends at its first failing check
CallsUntilRejection ==
  IF ~HeaderPresented \/ ~WithinCap THEN <<"respond">>
  ELSE IF ~WellFormedProof \/ ~SupportedScheme \/ NamesOtherResource
       THEN DecodeCalls \o <<"respond">>
  ELSE IF ~verifyResult.valid THEN DecodeCalls \o VerifyCalls \o <<"respond">>
  ELSE DecodeCalls \o VerifyCalls \o SettleCalls \o <<"respond">>

\* C1: the protected handler is invoked only if the header was present, at
\* most 16384 bytes, a valid proof of a supported scheme, not naming another
\* resource, verified valid and settled; a request that is answered with a
\* response stops at its first failing check and runs no later step.
C1_NextOnlyAfterAllChecks ==
  /\ Called("next") =>
       /\ HeaderPresented /\ WithinCap /\ WellFormedProof /\ SupportedScheme
       /\ ~NamesOtherResource
       /\ Called("fetch /verify") /\ verifyResp.kind = "http" /\ verifyResult.valid
       /\ Called("fetch /settle") /\ settleResp.kind = "http" /\ settleResult.success
       /\ res.sent = 0
  /\ res.sent > 0 =>
       /\ gpc = "done"
       /\ res.sent = 1
       /\ trace = CallsUntilRejection
       /\ ~(/\ HeaderPresented /\ WithinCap /\ WellFormedProof /\ SupportedScheme
            /\ ~NamesOtherResource /\ verifyResult.valid /\ settleResult.success)

C1_Witness == gpc = "done" /\ Called("next") /\ res.sent = 0

\* C2: settlePayment is called only after verifyPayment returned valid; a
\* request issues at most one verify call and at most one settle call, and
\* never has both in flight.
C2_VerifyThenSettle ==
  /\ Called("settlePayment") =>
       /\ Called("verifyPayment")
       /\ Position("verifyPayment") < Position("settlePayment")
       /\ verifyResp.kind # "none"
       /\ verifyResult.valid
       /\ inflight.verify = 0
  /\ Count("verifyPayment") <= 1 /\ Count("fetch /verify") <= 1
  /\ Count("settlePayment") <= 1 /\ Count("fetch /settle") <= 1
  /\ inflight.verify + inflight.settle <= 1

C2_Witness == inflight.settle = 1 /\ verifyResult.valid

\* C4 as stated: whenever the handler is invoked, the resource embedded in
\* the proof equals the request path.
C4_ProofResourceEqualsPath ==
  Called("next") =>
    paymentHeader.text.hasPayload /\ paymentHeader.text.resource = resource

\* C4, amended: whenever the handler is invoked, the proof either embeds no
\* resource (absent or empty) or embeds the request path.
C4_NamedResourceEqualsPath ==
  Called("next") => (NamesResource => paymentHeader.text.resource = resource)

C4_Witness ==
  Called("next") /\ NamesResource /\ paymentHeader.text.resource = resource

\* C5: a valid proof of a supported scheme that names another resource is
\* answered 402 with the resource-mismatch diagnostic, with no verify or
\* settle call and without invoking the handler.
C5_MismatchRejected ==
  (HeaderPresented /\ WithinCap /\ WellFormedProof /\ SupportedScheme
   /\ NamesOtherResource)
  => /\ NoFacilitatorCall
     /\ ~Called("next")
     /\ gpc \in {"checkHeader", "checkSize", "decode", "checkProof",
                 "checkResource", "done"}
     /\ gpc = "done" =>
          /\ Rejected(402)
          /\ ChallengeFor(res.body)
          /\ res.body.verifyError = "Payment proof resource mismatch"

C5_Witness ==
  /\ gpc = "done" /\ HeaderPresented /\ WithinCap /\ WellFormedProof
  /\ SupportedScheme /\ NamesOtherResource /\ res.status = 402

\* no payment header under either name
NoHeaderSent ==
  ~req.headers.defined \/ (~req.headers.lower.present /\ ~req.headers.upper.present)

\* C6: a request with no payment header is answered 402 with a challenge
\* document whose first offer has scheme shadowwire and the request path as
\* resource, with no facilitator call and without invoking the handler.
C6_MissingHeaderChallenged ==
  (gpc # "idle" /\ NoHeaderSent)
  => /\ NoFacilitatorCall
     /\ ~Called("next") /\ ~Called("decodePaymentHeader")
     /\ gpc \in {"checkHeader", "done"}
     /\ gpc = "done" =>
          /\ Rejected(402)
          /\ ChallengeFor(res.body)
          /\ res.body.verifyError = Undefined

C6_Witness ==
  gpc = "done" /\ NoHeaderSent /\ res.status = 402 /\ Len(res.body.accepts) = 2

\* C7: a payment header longer than 16384 bytes is answered 400, before any
\* decoding and any facilitator call, and the handler is not invoked.
C7_OversizedRejected ==
  (HeaderPresented /\ ~WithinCap)
  => /\ NoFacilitatorCall
     /\ ~Called("next") /\ ~Called("decodePaymentHeader")
     /\ gpc \in {"checkHeader", "checkSize", "done"}
     /\ gpc = "done" => Rejected(400) /\ res.body.accepts = <<>>

C7_Witness ==
  gpc = "done" /\ paymentHeader.bytes = 16385 /\ res.status = 400

\* C8: a header within the cap that is not a valid proof, or is a proof of
\* an unsupported scheme, is answered 402 with a challenge carrying a
\* diagnostic, with no facilitator call and without invoking the handler.
C8_BadProofChallenged ==
  (HeaderPresented /\ WithinCap /\ ~(WellFormedProof /\ SupportedScheme))
  => /\ NoFacilitatorCall
     /\ ~Called("next")
     /\ gpc \in {"checkHeader", "checkSize", "decode", "checkProof", "done"}
     /\ gpc = "done" =>
          /\ Rejected(402)
          /\ ChallengeFor(res.body)
          /\ res.body.verifyError = "Invalid or unsupported payment proof"

C8_Witness ==
  /\ gpc = "done" /\ HeaderPresented /\ WithinCap /\ WellFormedProof
  /\ ~SupportedScheme /\ res.status = 402

\* the error string in the facilitator's answer, Undefined when there is none
ReportedError(r) ==
  IF r.kind = "http" /\ r.json /\ r.error # "" THEN r.error ELSE Undefined

\* the facilitator answered, and not with a success status and a truthy flag
ReportedFailure(r) ==
  r.kind = "http" /\ ~(r.status \in 200..299 /\ r.json /\ r.flag)

\* C9: when the facilitator reports the proof invalid at verify (failure at
\* settle), the gate answers 402 with a challenge whose verifyError
\* (settleError) is the error string the facilitator reported, unchanged,
\* and the handler is not invoked.
C9_RemoteErrorVerbatim ==
  /\ (gpc = "done" /\ ReportedFailure(verifyResp))
     => /\ Rejected(402)
        /\ ChallengeFor(res.body)
        /\ res.body.settleError = Undefined
        /\ ReportedError(verifyResp) # Undefined
             => res.body.verifyError = ReportedError(verifyResp)
  /\ (gpc = "done" /\ ReportedFailure(settleResp))
     => /\ Rejected(402)
        /\ ChallengeFor(res.body)
        /\ res.body.verifyError = Undefined
        /\ ReportedError(settleResp) # Undefined
             => res.body.settleError = ReportedError(settleResp)

C9_Witness ==
  /\ gpc = "done" /\ ReportedFailure(settleResp) /\ settleResp.status = 403
  /\ res.body.settleError = "Invalid signature"

\* C10: when verify and settle succeed and the post-payment callback
\* throws, the gate invokes the handler exactly once and sends no response.
C10_CallbackIsolated ==
  (/\ gpc \in {"done", "rejected"}    \* the middleware's promise has settled
   /\ verifyResult.valid /\ settleResult.success
   /\ config.onPayment = "throws")
  => /\ gpc = "done"
     /\ Count("next") = 1
     /\ trace[Len(trace)] = "next"
     /\ res.sent = 0

C10_Witness ==
  /\ gpc = "done" /\ config.onPayment = "throws" /\ Called("onPayment")
  /\ Count("next") = 1

\* C11: every response the gate sends (each 402 and the 400 for an
\* oversized header) carries Cache-Control: no-store, Vary on the payment
\* header name, the negotiation indicator WWW-Authenticate: X402 and the
\* advertisement of the supported scheme names X-Payment-Schemes.
C11_EveryResponseCarriesHeaders ==
  res.sent > 0
  => {<<"Cache-Control", "no-store">>, <<"Vary", "X-Payment">>,
      <<"WWW-Authenticate", "X402">>,
      <<"X-Payment-Schemes", "shadowwire">>} \subseteq res.headers

\* the facilitator call failed in transport: the fetch rejected (timeout,
\* connection error) or the answer's status is not 2xx
TransportFailure(r) ==
  r.kind = "reject" \/ (r.kind = "http" /\ ~(r.status \in 200..299))

\* the facilitator answered with a 2xx status and a truthy flag
ExplicitSuccess(r) ==
  r.kind = "http" /\ r.status \in 200..299 /\ r.json /\ r.flag

\* C14: verifyPayment returns a result for every outcome of its facilitator
\* call: a transport failure gives valid=false with an error string, and
\* valid=true is returned only for a success status with a truthy valid.
C14_VerifyFailsClosed ==
  verifyResp.kind # "none"
  => /\ gpc # "awaitVerify"
     /\ TransportFailure(verifyResp)
        => ~verifyResult.valid /\ verifyResult.error \notin {Undefined, ""}
     /\ verifyResult.valid => ExplicitSuccess(verifyResp)

C14_Witness ==
  /\ verifyResp.kind = "http" /\ verifyResp.status = 500 /\ verifyResp.flag
  /\ ~verifyResult.valid
  /\ verifyResult.error = "Facilitator returned 500"

\* C15: settlePayment returns a result for every outcome of its
\* facilitator call: a transport failure gives success=false with an error
\* string, and success=true is returned only for a success status with a
\* truthy success.
C15_SettleFailsClosed ==
  settleResp.kind # "none"
  => /\ gpc # "awaitSettle"
     /\ TransportFailure(settleResp)
        => ~settleResult.success /\ settleResult.error \notin {Undefined, ""}
     /\ settleResult.success => ExplicitSuccess(settleResp)

C15_Witness ==
  /\ settleResp.kind = "reject" /\ settleResp.message = "ECONNREFUSED"
  /\ ~settleResult.success
  /\ settleResult.error = "ECONNREFUSED"

(***************************************************************************)
(* Properties of X402Client.request() (checked under SpecClient)           *)
(***************************************************************************)

\* C3: request() never throws: when the initial fetch or a paid retry fetch
\* fails at transport level or times out, request() returns a failure
\* result.
C3_RequestNeverThrows ==
  /\ outcome.state # "threw"
  /\ (cpc = "done" /\ (initial.kind = "reject" \/ lastRes.kind = "reject"))
     => outcome.state = "returned" /\ ~outcome.success

(***************************************************************************)
(* Properties of the proof codec (checked under SpecCodec)                 *)
(***************************************************************************)

\* the X402PaymentProof object that a decoded value stands for
DecodedProof(d) ==
  [x402Version |-> d.x402Version, scheme |-> d.scheme, network |-> d.network,
   payload |-> [signature |-> d.signature, amountHidden |-> d.amountHidden,
                resource |-> d.resource, payTo |-> d.payTo,
                sender |-> d.sender]]

\* x402Version 2, a non-empty scheme and a non-empty payload.signature
ValidPaymentProof(p) ==
  /\ p.x402Version = 2
  /\ p.scheme \notin {Undefined, ""}
  /\ p.payload.signature \notin {Undefined, ""}

RoundTrips ==
  /\ ~codecOut.isNull
  /\ DecodedProof(codecOut.value) = codecProof

C13_DecodeFailsClosed ==
  kpc \in {"roundTrip", "decoded"}
  => /\ (\/ codecHeader.bytes > 16384
         \/ codecHeader.text.kind # "object"
         \/ codecHeader.text.x402Version # 2
         \/ codecHeader.text.scheme = Undefined
         \/ ~codecHeader.text.hasPayload
         \/ codecHeader.text.signature = Undefined)
        => codecOut.isNull
     /\ ~codecOut.isNull
        => /\ codecOut.value.x402Version = 2
           /\ codecOut.value.scheme \notin {Undefined, ""}
           /\ codecOut.value.hasPayload
           /\ codecOut.value.signature \notin {Undefined, ""}

C13_Witness ==
  /\ kpc = "decoded"
  /\ codecHeader.bytes <= 16384
  /\ codecHeader.text.kind = "object"
  /\ codecHeader.text.x402Version = 1
  /\ codecOut.isNull

(***************************************************************************)
(* Properties of X402Client.pay() (checked under SpecPay)                  *)
(***************************************************************************)

PayMade(e) == \E i \in 1..Len(payTrace) : payTrace[i] = e

\* C16: pay() answers a requirement whose scheme is not supported with the
\* unsupported-scheme failure whatever its amount, without parsing the
\* amount and without calling the transfer capability.
C16_UnsupportedSchemeRejectedFirst ==
  (ppc # "idle" /\ payReq.scheme \notin {"shadowwire", "shadow"})
  => /\ ppc = "returned"
     /\ ~payOut.success
     /\ payOut.error = "Unsupported x402 payment scheme: " \o payReq.scheme
     /\ ~PayMade("parseAmount")
     /\ payCalls = 0

C16_Witness ==
  /\ ppc = "returned"
  /\ payReq.scheme = "stripe"
  /\ payReq.amount = <<"0">>
  /\ payOut.error = "Unsupported x402 payment scheme: stripe"
  /\ payCalls = 0

\* amount strings that hold no integer, or one that is not positive
RejectedAmounts == {<<>>, <<"a", "b", "c">>, <<"0">>, <<"-", "5">>}

\* C17: pay() answers a requirement of the supported scheme whose amount is
\* non-positive or holds no integer with the invalid-amount failure and
\* does not call the transfer capability; the transfer capability is only
\* called with an amount greater than zero.
C17_InvalidAmountRejected ==
  /\ (/\ ppc # "idle"
      /\ payReq.scheme \in {"shadowwire", "shadow"}
      /\ payReq.amount \in RejectedAmounts)
     => /\ ppc = "returned"
        /\ ~payOut.success
        /\ payOut.error = "Invalid payment amount"
        /\ payCalls = 0
  /\ payCalls > 0 => payAmount > 0

C17_Witness ==
  /\ ppc = "returned"
  /\ payReq.scheme = "shadowwire"
  /\ payReq.amount = <<"-", "5">>
  /\ payOut.error = "Invalid payment amount"
  /\ payCalls = 0

\* C18: pay() never throws: an exception of the transfer capability comes
\* back as a failure result with the exception's message, and a transfer
\* that returns success=false gives a failure result without a payment
\* header.
C18_PayNeverThrows ==
  /\ ppc # "threw"
  /\ (ppc = "returned" /\ payTransfer.kind = "throws")
     => /\ ~payOut.success
        /\ payOut.error = payTransfer.message
        /\ ~payOut.paymentHeader.present
  /\ (ppc = "returned" /\ payTransfer.kind = "returns" /\ ~payTransfer.success)
     => /\ ~payOut.success
        /\ payOut.error = "ShadowWire transfer failed"
        /\ ~payOut.paymentHeader.present

C18_Witness ==
  /\ ppc = "returned"
  /\ payTransfer.kind = "throws"
  /\ payOut.error = "rpc down"
  /\ payCalls = 1

\* C19: whenever pay() returns success, its paymentHeader decodes to a
\* proof whose payload.signature is the transfer's signature, whose
\* amountHidden is the transfer's flag, and whose resource and payTo are
\* the requirement's.
C19_PaidHeaderDecodes ==
  (ppc = "returned" /\ payOut.success)
  => LET d == decodePaymentHeader(payOut.paymentHeader) IN
     /\ ~d.isNull
     /\ d.value.hasPayload
     /\ d.value.signature = payTransfer.tx_signature
     /\ d.value.amountHidden = payTransfer.amount_hidden
     /\ d.value.resource = payReq.resource
     /\ d.value.payTo = payReq.payTo

(***************************************************************************)
(* Offer selection of X402Client.request() (checked under SpecClient)      *)
(***************************************************************************)

\* the offers of the 402 challenge request() received
ChallengeOffers ==
  IF initial.kind = "http" /\ initial.status = 402
     /\ initial.body.json /\ initial.body.hasAccepts
  THEN initial.body.accepts ELSE <<>>

\* positions of the offers whose scheme is the supported one
SchemeMatches ==
  {i \in 1..Len(ChallengeOffers) :
     ChallengeOffers[i].scheme \in {"shadowwire", "shadow"}}

\* C20: on a 402 challenge request() pays the first offer, in list order,
\* whose scheme is the supported scheme identifier, whatever the network
\* or other fields of the offers; when no offer matches it fails with the
\* 'no compatible option' error and calls the transfer capability zero
\* times.
C20_FirstSchemeMatchPaid ==
  /\ (Len(ChallengeOffers) > 0 /\ SchemeMatches = {})
     => /\ outcome.state = "returned"
        /\ ~outcome.success
        /\ outcome.error = "No compatible payment option (need ShadowWire)"
        /\ transfers = 0
  /\ transfers > 0
     => /\ SchemeMatches # {}
        /\ \E i \in SchemeMatches :
             /\ \A j \in SchemeMatches : i <= j
             /\ payResult.requirement = ChallengeOffers[i]

C20_Witness ==
  /\ Len(ChallengeOffers) = 2
  /\ ChallengeOffers[1].scheme = "stripe"
  /\ ChallengeOffers[1].network = "solana:mainnet"
  /\ transfers = 1
  /\ payResult.requirement = ChallengeOffers[2]

\* request() has received its first response and gone past lines 160-183
InitialAnswered == initial.kind = "http" /\ cpc # "awaitInitial"

\* C21: request() calls the transfer capability only after a 402 whose body
\* parsed to a non-empty offer list holding an offer of the supported
\* scheme; after a non-402 first response, or a 402 whose body does not
\* parse or lists no offer, request() has returned with one fetch and no
\* transfer call made.
C21_TransferOnlyAfterChallenge ==
  /\ transfers > 0
     => /\ initial.kind = "http" /\ initial.status = 402
        /\ initial.body.json /\ initial.body.hasAccepts
        /\ Len(initial.body.accepts) > 0
        /\ \E i \in 1..Len(initial.body.accepts) :
             initial.body.accepts[i].scheme \in {"shadowwire", "shadow"}
  /\ (/\ InitialAnswered
      /\ \/ initial.status # 402
         \/ ~initial.body.json
         \/ ~initial.body.hasAccepts
         \/ Len(initial.body.accepts) = 0)
     => /\ cpc = "done"
        /\ outcome.state = "returned"
        /\ fetches = 1
        /\ transfers = 0

C21_Witness ==
  /\ InitialAnswered
  /\ initial.status = 402
  /\ initial.body.json /\ initial.body.hasAccepts
  /\ Len(initial.body.accepts) = 0
  /\ outcome.error = "No accepted payment methods in 402 response"
  /\ fetches = 1 /\ transfers = 0

\* a paid fetch was answered with a status that is neither success nor 402
PaidFailure ==
  /\ cpc \notin {"awaitPaid"}
  /\ lastRes.kind = "http"
  /\ ~(lastRes.status \in 200..299)
  /\ lastRes.status # 402

\* C22: after payment, a failure for a non-success status other than 402 is
\* returned only after the final, (maxRetries + 1)-th, paid attempt: while
\* attempts remain request() reissues the request instead of returning.
C22_FailureOnlyAfterFinalAttempt ==
  (PaidFailure /\ cpc = "done")
  => /\ attempt = cfg.maxRetries
     /\ fetches = cfg.maxRetries + 2

\* C23: after payment, a paid fetch answered with 402 makes request()
\* return the failure 'Payment not accepted by server' at once, with no
\* further fetch and no further transfer.
C23_RepeatedChallengeTerminal ==
  (lastRes.kind = "http" /\ lastRes.status = 402)
  => /\ cpc = "done"
     /\ outcome.state = "returned"
     /\ ~outcome.success
     /\ outcome.error = "Payment not accepted by server"
     /\ outcome.statusCode = 402
     /\ fetches = attempt + 2
     /\ transfers = 1

C23_Witness ==
  /\ lastRes.kind = "http" /\ lastRes.status = 402
  /\ cfg.maxRetries = 2 /\ attempt = 1
  /\ outcome.error = "Payment not accepted by server"
  /\ fetches = 3

\* C24: when the first response is a 402 with a compatible offer, the
\* transfer succeeds and the first paid fetch is answered with a success
\* status, request() returns success with that response's body as data and
\* the payment metadata, after exactly two fetches and one transfer.
C24_HappyPath ==
  (/\ initial.kind = "http" /\ initial.status = 402
   /\ payResult.success
   /\ attempt = 0
   /\ lastRes.kind = "http" /\ lastRes.status \in 200..299)
  => /\ cpc = "done"
     /\ outcome.state = "returned"
     /\ outcome.success
     /\ outcome.data = lastRes.body.data
     /\ outcome.statusCode = lastRes.status
     /\ outcome.payment
     /\ payResult.hasTransfer /\ payResult.transfer.success
     /\ \E i \in SchemeMatches :
          /\ \A j \in SchemeMatches : i <= j
          /\ payResult.requirement = ChallengeOffers[i]
     /\ fetches = 2
     /\ transfers = 1

C24_Witness ==
  /\ cpc = "done"
  /\ initial.status = 402
  /\ payResult.transfer.tx_signature = "sig123"
  /\ lastRes.status = 200
  /\ outcome.success /\ outcome.data = "premium" /\ outcome.payment
  /\ fetches = 2 /\ transfers = 1

\* C27: a 402 whose challenge document has a protocol version other than 2
\* is treated as unparsable: request() fails without selecting an offer and
\* without calling the transfer capability.
C27_ForeignVersionUnparsable ==
  (/\ InitialAnswered
   /\ initial.status = 402
   /\ initial.body.json
   /\ initial.body.x402Version # 2)
  => /\ cpc = "done"
     /\ outcome.state = "returned"
     /\ ~outcome.success
     /\ payResult.requirement = NoOffer
     /\ transfers = 0

(***************************************************************************)
(* Properties of the static helpers (checked under SpecHelper)             *)
(***************************************************************************)

\* C25: parseRequirements returns a challenge document only for a structure
\* with a non-empty list under accepts, and null for every other body.
C25_OnlyNonEmptyOfferLists ==
  hpc # "idle"
  => (~helperParsed.isNull
      <=> /\ helperBody.kind = "object"
          /\ helperBody.acceptsKind = "array"
          /\ Len(helperBody.accepts) > 0)

\* C26: is402(status, body) is true if and only if status is 402 and
\* parseRequirements(body) succeeds; it is false for status 200 with a
\* valid challenge body and for status 402 with an empty object.
C26_Is402Iff ==
  hpc = "is402"
  => /\ helperIs402 <=> (helperStatus = 402 /\ ~helperParsed.isNull)
     /\ helperStatus = 200 => ~helperIs402
     /\ (helperBody.kind = "object" /\ helperBody.acceptsKind = "missing")
        => ~helperIs402

C26_Witness ==
  /\ hpc = "is402"
  /\ helperStatus = 200
  /\ helperBody.kind = "object" /\ helperBody.x402Version = 2
  /\ helperBody.acceptsKind = "array" /\ Len(helperBody.accepts) = 1
  /\ ~helperParsed.isNull
  /\ ~helperIs402

(***************************************************************************)
(* Properties of createPaymentRequired (checked under SpecBuilder)         *)
(***************************************************************************)

PositiveIntegerString(str) ==
  /\ Len(str) > 0
  /\ \A k \in 1..Len(str) :
       str[k] \in {"0", "1", "2", "3", "4", "5", "6", "7", "8", "9"}
  /\ \E k \in 1..Len(str) : str[k] # "0"

\* C29: every document createPaymentRequired produces has a non-empty offer
\* list, and every offer in it has an amount string that is a positive
\* integer and a non-empty scheme and network.
C29_OffersWellFormed ==
  \A n \in 1..Len(builderDocs) :
    /\ Len(builderDocs[n].accepts) > 0
    /\ \A k \in 1..Len(builderDocs[n].accepts) :
         LET offer == builderDocs[n].accepts[k] IN
         /\ PositiveIntegerString(offer.amount)
         /\ offer.scheme \notin {Undefined, ""}
         /\ offer.network \notin {Undefined, ""}


\* what call i does alone on its own input and the answers to its own calls
AloneOf(i) ==
  LET c == calls[i] IN
  IF c.kind = "gate"
  THEN GateAlone(c.input, c.verifyResp, c.settleResp, TestConfig)
  ELSE RequestAlone(c.first, c.transfer, c.paid, TestClient)

SameAsAlone(i) ==
  /\ calls[i].outcome = AloneOf(i).outcome
  /\ calls[i].sent = AloneOf(i).sent
  /\ calls[i].kind = "client" => calls[i].slept = AloneOf(i).slept

\* C30: under any interleaving of gate requests and of request() calls in
\* flight together, the outcome of every finished call, the calls it issued
\* with what they carried, and the time it slept are those of the same call
\* running alone on its own input and on the answers to its own calls.
C30_InterleavingSameAsAlone ==
  \A i \in Calls : calls[i].pc = "done" => SameAsAlone(i)

\* two calls of each kind have been in flight together, and now two request()
\* calls that overlapped have finished differently: one paid after
\* a retry, the other refused by the server
C30_Witness ==
  /\ overlapped = {"gate", "client"}
  /\ \A i \in Calls :
       calls[i].pc = "done" /\ calls[i].kind = "client" /\ calls[i].together
  /\ calls[1].outcome.success /\ calls[1].slept > 0
  /\ calls[2].outcome.error = "Payment not accepted by server"
  /\ calls[1].outcome.payment.requirement # frames[Frame(2)].requirement

SizeLimitError(result, h) ==
  /\ ~result.valid
  /\ result.error = HeaderTooLargeMessage(byteLength(h))

\* C31: verifyPayment on a header of more than 16384 bytes returns valid =
\* false with the size-limit error and hands nothing to fetch; on a header of
\* exactly 16384 bytes it issues its request, and decodePaymentHeader and the
\* gate's size test accept that header too.
C31_OversizedVerifyShortCircuits ==
  facCall.op = "verify" =>
    LET h == facCall.paymentHeader IN
    /\ byteLength(h) > MAX_PAYMENT_HEADER_BYTES =>
         /\ facSent = <<>>
         /\ fpc = "done"
         /\ SizeLimitError(facResult, h)
    /\ byteLength(h) = MAX_PAYMENT_HEADER_BYTES =>
         /\ Len(facSent) = 1
         /\ fpc = "done" => ~SizeLimitError(facResult, h)
         /\ ~decodePaymentHeader(h).isNull
         /\ ~HeaderTooLarge(h)

\* verifyPayment has returned on a header one byte over the cap
C31_Witness ==
  /\ fpc = "done"
  /\ facCall.op = "verify"
  /\ byteLength(facCall.paymentHeader) = MAX_PAYMENT_HEADER_BYTES + 1
  /\ facSent = <<>>
  /\ SizeLimitError(facResult, facCall.paymentHeader)

\* fetches that carried the payment header: all but the first
PaidFetches == IF fetches = 0 THEN 0 ELSE fetches - 1

FetchesBounded ==
  /\ PaidFetches <= cfg.maxRetries + 1
  /\ fetches <= cfg.maxRetries + 2
  /\ cpc # "idle" /\ ~cfg.configured => PaidFetches <= 2
  /\ attempt <= cfg.maxRetries
  /\ cpc = "done" /\ PaidFetches > 0 /\ lastRes.kind = "http"
       => outcome.state = "returned"

C33_TotalBackoffAtMostOneSecond ==
  /\ slept <= 1000
  /\ cpc = "sleeping" =>
       /\ lastRes.kind = "http" /\ lastRes.status >= 500
       /\ attempt < cfg.maxRetries

TimedOutError(ms) == "x402 request timed out after " \o ToString(ms) \o "ms"

\* the error doFetch throws for a transport failure that is not a timeout
OtherTransportErrors ==
  {doFetch(f, DEFAULT_TIMEOUT_MS).error : f \in {a \in FetchAnswers : a.kind = "reject"}}

DoFetchTimeoutDistinct ==
  /\ dpc # "idle" /\ dTimeoutMs # 5000 => dTimeoutMs = DEFAULT_TIMEOUT_MS
  /\ dpc = "pending" => dElapsed * 1000 <= dTimeoutMs
  /\ dTimer = "fired" =>
       /\ dpc = "done" /\ dOut.throws
       /\ dOut.response = AbortRejection
       /\ dOut.error = TimedOutError(dTimeoutMs)
       /\ dOut.error \notin OtherTransportErrors
  /\ dpc = "done" /\ dTimer # "fired" /\ dOut.throws =>
       /\ dOut.error \in OtherTransportErrors
       /\ dOut.error # TimedOutError(dTimeoutMs)
       /\ dElapsed * 1000 <= dTimeoutMs

\* C34: a fetch of doFetch is never pending beyond this.timeoutMs (15000 ms
\* unless configured); when the timer runs out the fetch is aborted and
\* doFetch throws the "request timed out" error, which no other transport
\* failure produces, and every pending doFetch comes to an end.
C34_TimeoutDistinctAndBounded ==
  /\ []DoFetchTimeoutDistinct
  /\ (dpc = "pending") ~> (dpc = "done")

\* a doFetch under the default timeout was cut off after 15 seconds
C34_Witness ==
  /\ dpc = "done"
  /\ dTimer = "fired"
  /\ dElapsed = 15
  /\ dOut.error = "x402 request timed out after 15000ms"

FacilitatorFailed ==
  /\ IF facCall.op = "verify" THEN ~facResult.valid ELSE ~facResult.success
  /\ Truthy(facResult.error)

\* the fetch timed out, was refused, or came back with a non-2xx status
FacilitatorFetchFailed ==
  facResp.kind = "reject" \/ (facResp.kind = "http" /\ ~Ok(facResp.status))

SingleBoundedCall ==
  /\ Len(facSent) <= 1
  /\ \A k \in 1..Len(facSent) :
       /\ facSent[k].timeoutMs = DEFAULT_TIMEOUT_MS
       /\ facSent[k].url = "/" \o facCall.op
  /\ fpc = "done" /\ FacilitatorFetchFailed =>
       /\ FacilitatorFailed
       /\ Len(facSent) = 1

\* C35: one call of verifyPayment or settlePayment hands at most one request
\* to timedFetch, under the 15000 ms timer; when that fetch times out, is
\* refused or is answered with a non-2xx status the call returns a failure
\* result without sending again, and every call that awaits its fetch returns.
C35_OneBoundedCallNoRetry ==
  /\ []SingleBoundedCall
  /\ (fpc = "awaitFetch") ~> (fpc = "done")

\* settlePayment has returned a failure after its one fetch was aborted by
\* the timer
C35_Witness ==
  /\ fpc = "done"
  /\ facCall.op = "settle"
  /\ facResp.kind = "reject" /\ facResp.message = "This operation was aborted"
  /\ Len(facSent) = 1
  /\ ~facResult.success
  /\ facResult.error = "This operation was aborted"

CallbackConfigured == config.onPayment # "none"

AttachedThenCallbackThenNext ==
  /\ Count("req.x402") = 1 /\ req.x402.attached
  /\ Count("onPayment") = 1
  /\ Count("next") = 1
  /\ Position("req.x402") < Position("onPayment")
  /\ Position("onPayment") < Position("next")

\* C36: when the gate has passed a request through and a callback is
\* configured, it has set req.x402, then called the callback exactly once,
\* then called next(), in that order; a request that was answered with a
\* response carries no req.x402.
C36_AttachCallbackNextInOrder ==
  /\ gpc = "done" /\ Called("next") /\ CallbackConfigured
       => AttachedThenCallbackThenNext
  /\ res.sent > 0 => ~req.x402.attached /\ ~Called("req.x402")

\* the payment headers of the fetches after the first
PaidHeaders == SubSeq(sentHeaders, 2, Len(sentHeaders))

\* C37: one request() call makes at most one transfer, however many paid
\* fetches it sends and whatever they are answered with, and every paid
\* fetch carries the one header that pay() returned.
C37_OnePaymentOneHeader ==
  /\ transfers <= 1
  /\ Len(sentHeaders) = fetches
  /\ fetches > 0 => sentHeaders[1] = NoHeader
  /\ \A k \in 1..Len(PaidHeaders) :
       /\ transfers = 1
       /\ ~HeaderFalsy(PaidHeaders[k])
       /\ PaidHeaders[k] = payResult.paymentHeader
       /\ PaidHeaders[k] = PaidHeaders[1]

\* after three server errors and three sleeps the fourth paid fetch went out
\* with the same header, and still one transfer was made
C37_Witness ==
  /\ cfg.maxRetries = 3
  /\ Len(PaidHeaders) = 4
  /\ slept = 1750
  /\ transfers = 1
  /\ cpc = "done" /\ outcome.state = "threw"

TransferSucceeded == payResult.success /\ payResult.hasTransfer

PaidRetrySucceeded == lastRes.kind = "http" /\ Ok(lastRes.status)

\* C38: a result returned by request() carries the payment metadata exactly
\* when the transfer succeeded and a paid fetch was answered with a success
\* status; a failure returned after a successful transfer carries none, and
\* a success without metadata answers a first response that was not a 402.
C38_PaymentMetadataIff ==
  outcome.state = "returned" =>
    /\ outcome.payment <=> (TransferSucceeded /\ PaidRetrySucceeded)
    /\ outcome.payment => outcome.success /\ transfers = 1
    /\ ~outcome.success /\ TransferSucceeded => ~outcome.payment
    /\ outcome.success /\ ~outcome.payment =>
         /\ initial.kind = "http" /\ initial.status # 402
         /\ transfers = 0 /\ fetches = 1

\* a failure returned after a successful transfer, a paid fetch answered with
\* a server error and a second one answered with 402
C38_Witness ==
  /\ outcome.state = "returned"
  /\ TransferSucceeded
  /\ fetches = 3
  /\ ~outcome.success /\ ~outcome.payment
  /\ outcome.error = "Payment not accepted by server"

OneTerminalOutcome ==
  /\ res.sent <= 1
  /\ Count("next") <= 1
  /\ ~(res.sent = 1 /\ Called("next"))
  /\ res.sent = 1 => res.status \in {400, 402} /\ gpc = "done"
  /\ Called("next") => gpc = "done"
  /\ gpc = "done" => res.sent + Count("next") = 1

\* C39: a request handed to the gate ends with exactly one of the two: one
\* response, of status 402 or 400, or one call of next(); never both, and,
\* the facilitator fetches settling or timing out, never neither.
C39_ExactlyOneTerminalOutcome ==
  /\ []OneTerminalOutcome
  /\ (gpc # "idle") ~> (gpc = "done")

\* the request was passed through after both facilitator fetches: next() was
\* called once and no response was sent
C39_Witness ==
  /\ gpc = "done"
  /\ Count("next") = 1 /\ res.sent = 0
  /\ Called("fetch /verify") /\ Called("fetch /settle")
  /\ req.x402.attached

(***************************************************************************)
(* Composition of client and middleware (checked under SpecCompose)        *)
(***************************************************************************)

\* the paid request got past the presence, size, decode, scheme and
\* resource checks of the middleware
PassedGateChecks == xGate.stoppedAt = "verify"

\* the requirement the middleware builds for verify and settle has the
\* offer's scheme, network, amount, asset, payTo and resource
RequirementMatchesOffer ==
  LET offer == xChallenge.accepts[1] IN
  /\ xGate.requirement.scheme = offer.scheme
  /\ xGate.requirement.network = offer.network
  /\ xGate.requirement.amount = offer.amount
  /\ xGate.requirement.asset = offer.asset
  /\ xGate.requirement.payTo = offer.payTo
  /\ xGate.requirement.resource = offer.resource

\* C40: the header of a successful pay() for the first offer of a challenge
\* issued for a path, presented to the same middleware at the same path,
\* passes the presence, size, decode, scheme and resource checks, and the
\* requirement built for verify and settle has the scheme, network, amount,
\* asset, payTo and resource of that offer.
C40_PaidHeaderPassesGate ==
  xpc = "gated" => PassedGateChecks /\ RequirementMatchesOffer

====
